---- MODULE Spec2Model ----
(***************************************************************************)
(* A model of the per-guild music playback of discord-music-bot:           *)
(*   src/src/utils/queue.py   class Queue                                  *)
(*   src/src/utils/player.py  class Player                                 *)
(*   src/src/cogs/music.py    class MusicCog                               *)
(* and of the video pipeline of                                            *)
(*   src/src/cogs/media_handler.py  class MediaHandler                     *)
(* Songs are the dicts YTDLSource returns; only their identity matters to  *)
(* the queue and the player, so a song is a number.  Queue._history is     *)
(* written by get_next and read by get_history only, which nothing calls:  *)
(* it is left out.                                                         *)
(* Of the play command the single-song path is modelled (a query that is   *)
(* no playlist), and ctx.send is taken to succeed.  discord.py is outside  *)
(* the repository: the voice transport is an environment that answers the  *)
(* calls the code makes on it.                                             *)
(***************************************************************************)
EXTENDS Integers, Sequences, FiniteSets

\* ------------------------------------------------------------------ bounds
\* config.MAX_QUEUE_SIZE is read from the environment (config.py:17, default
\* 20); the model runs it at a small value.
MAX_QUEUE_SIZE == 3
\* The number of distinct songs the resolver can return.
NumSongs == 3

Songs == 1..NumSongs
None == 0

\* config.VOICE_RECONNECT_ATTEMPTS is read from the environment (config.py:11,
\* default 8); the model runs it at a small value.
VOICE_RECONNECT_ATTEMPTS == 3
\* config.VOICE_RETRY_DELAY, in seconds (config.py:12, default 3)
VOICE_RETRY_DELAY == 3
\* Where connect is studied for its waits, the configuration is any of: up to
\* MaxRetries attempts, with a base retry delay among RetryDelays (a duration
\* in seconds: small, such that the second wait passes the ceiling, and above
\* the ceiling).
MaxRetries == 5
RetryDelays == {VOICE_RETRY_DELAY, 14, 25}
\* How many handles (discord.VoiceClient objects) the transport hands out.
MaxHandles == 2
\* Command coroutines that can be in progress at once, and idle-timer tasks
\* (asyncio tasks made by start_disconnect_timer) that can exist at once.
NumTasks == 2
NumTimers == 2
\* Commands the users issue where every guild is served side by side, and
\* where the commands of one guild overlap.
MaxCmds == 3
MaxFlights == 2
\* Commands the users of one guild issue one after the other.
MaxSession == 4

CmdTasks == 1..NumTasks
TimerTasks == (NumTasks + 1)..(NumTasks + NumTimers)
Procs == CmdTasks \cup TimerTasks
\* The guilds the bot serves, by id: one and another one.
Guilds == {1, 2}
Channels == {"chA", "chB"}

VARIABLES
    queueObj,   \* the Queue instances constructed so far, in order of construction
    playerObj,  \* the Player instances constructed so far, in order of construction
    vcObj,      \* the transport's handles (discord.VoiceClient), in order of creation
    proc,       \* the coroutines: command tasks and idle-timer tasks
    cog,        \* the MusicCog: its dicts players and queues
    config,     \* the module config: the values read from the environment at import
    hist,       \* history: what the cog has constructed, returned and started
    job,        \* the MediaHandler's video job: its files and where the pipeline is
    last        \* history: the last Queue operation, its arguments and its result

vars == <<queueObj, playerObj, vcObj, proc, cog, config, hist, job, last>>

\* ------------------------------------------------------------------ Queue
\* Queue.__init__
NewQueue(max_size) == [_queue |-> <<>>, max_size |-> max_size]

\* del self._queue[index], index 0-based
DelAt(s, index) == SubSeq(s, 1, index) \o SubSeq(s, index + 2, Len(s))

\* deque.insert(index, x), index 0-based and 0 <= index: past the end it appends
InsertAt(s, index, x) ==
    IF index >= Len(s) THEN Append(s, x)
    ELSE SubSeq(s, 1, index) \o <<x>> \o SubSeq(s, index + 1, Len(s))

\* Queue.add with the capacity test left out
add_NoCapacityCheck(q, song) ==
    [q |-> [q EXCEPT !._queue = Append(@, song)], ret |-> TRUE]

\* Queue.add with the capacity test off by one (> for >=)
add_OffByOne(q, song) ==
    IF Len(q._queue) > q.max_size
    THEN [q |-> q, ret |-> FALSE]
    ELSE [q |-> [q EXCEPT !._queue = Append(@, song)], ret |-> TRUE]

\* Queue.add: the queue afterwards and the value returned
add(q, song) ==
    IF Len(q._queue) >= q.max_size
    THEN [q |-> q, ret |-> FALSE]
    ELSE [q |-> [q EXCEPT !._queue = Append(@, song)], ret |-> TRUE]

\* Queue.get_next: pops the head; None on an empty queue
get_next(q) ==
    IF q._queue = <<>>
    THEN [q |-> q, ret |-> None]
    ELSE [q |-> [q EXCEPT !._queue = Tail(@)], ret |-> Head(q._queue)]

\* Queue.clear
clear(q) == [q EXCEPT !._queue = <<>>]

\* Queue.remove(index)
remove(q, index) ==
    IF 0 <= index /\ index < Len(q._queue)
    THEN [q |-> [q EXCEPT !._queue = DelAt(@, index)], ret |-> q._queue[index + 1]]
    ELSE [q |-> q, ret |-> None]

\* Queue.move(from_index, to_index)
move(q, from_index, to_index) ==
    IF ~(0 <= from_index /\ from_index < Len(q._queue)
         /\ 0 <= to_index /\ to_index < Len(q._queue))
    THEN [q |-> q, ret |-> FALSE]
    ELSE [q |-> [q EXCEPT !._queue =
                    InsertAt(DelAt(@, from_index), to_index, q._queue[from_index + 1])],
          ret |-> TRUE]

\* the orders random.shuffle can leave a list in: every permutation of it
Shuffles(s) ==
    { [i \in 1..Len(s) |-> s[f[i]]] :
        f \in { g \in [1..Len(s) -> 1..Len(s)] : \A i, j \in 1..Len(s) : g[i] = g[j] => i = j } }

\* Queue.is_empty, Queue.is_full, Queue.size
is_empty(q) == Len(q._queue) = 0
is_full(q) == Len(q._queue) >= q.max_size
size(q) == Len(q._queue)

\* -------------------------------------------------------------- transport
\* discord.py is not part of the repository: a handle is what the code can
\* see of a discord.VoiceClient.  status is "connected" while is_connected()
\* is true, "lost" once the transport has dropped the connection on its own,
\* "removed" once the bot has been taken out of its voice channel from outside
\* and "closed" once disconnect(force=True) has been called on it (the code
\* calls disconnect in no other way).  The code reads the channel of a handle
\* that reports connected only (player.py:191-197), so a handle keeps its
\* channel while it is connected.  The awaited calls (channel.connect,
\* VoiceClient.disconnect, VoiceClient.move_to) can raise; is_connected(),
\* is_playing(), is_paused(), stop(), pause() and resume() do not.
\* audio is what the handle's AudioPlayer does ("idle" without one); after
\* holds the `after` callbacks of ended AudioPlayers that the player thread
\* has still to call, each with its error argument (TRUE for an error); owner
\* is the Player that `after` closes over, the one that acquired the handle.
NewHandle(g, p, channel, status) ==
    [guild |-> g, owner |-> p,
     channel |-> IF status = "connected" THEN channel ELSE "none",
     status |-> status, audio |-> "idle", after |-> <<>>]

\* what awaiting channel.connect(...) can end in
ConnectOutcomes ==
    {"ok", "unconnected", "timeout", "closed4006", "closed", "already", "opus",
     "client", "error", "session_error"}

\* VoiceClient.is_connected()
vc_is_connected(w, h) == w.vc[h].status = "connected"

\* the guild has a live voice client: channel.connect raises
\* ClientException("Already connected to a voice channel.")
HasLive(w, g) == \E h \in 1..Len(w.vc) : w.vc[h].guild = g /\ w.vc[h].status = "connected"

\* VoiceClient.stop(): an AudioPlayer, playing or paused, ends and its
\* thread will call `after` with no error
vc_stop(w, h) ==
    IF w.vc[h].audio = "idle" THEN w
    ELSE [w EXCEPT !.vc[h].audio = "idle", !.vc[h].after = Append(@, FALSE)]

\* VoiceClient.disconnect(force=True): it stops the audio, and the connection
\* is gone from the moment of the call, whether or not the awaited teardown
\* then raises
vc_disconnect(w, h) ==
    [vc_stop(w, h) EXCEPT !.vc[h].status = "closed", !.vc[h].channel = "none"]

\* ----------------------------------------------------------------- Player
\* the values of config.py that Player.connect reads (player.py:73-74), as
\* the environment sets them by default
DefaultConfig ==
    [VOICE_RECONNECT_ATTEMPTS |-> VOICE_RECONNECT_ATTEMPTS,
     VOICE_RETRY_DELAY |-> VOICE_RETRY_DELAY]

\* Player.__init__ (volume is left out: nothing modelled reads it)
NewPlayer ==
    [voice_client |-> None, is_playing |-> FALSE, is_paused |-> FALSE,
     current_song |-> None, _disconnect_timer |-> None, repeat_mode |-> FALSE]

\* a coroutine: where it is (pc), the call it is in (fn), its Player and guild,
\* the locals of connect (channel, attempt), the handle channel.connect
\* returned or move_to was called on (h), disconnect's force_cleanup (fc),
\* the callers to resume (stack), and history: the transport connect calls
\* made by the current connect (nconn), whether the handle of the current
\* attempt (h) reported connected at player.py:110 (chk1) and at :112 (chk2),
\* whether the call has caught an exception of the transport (caught), the
\* value returned (ret), and whether the call ended with an exception
\* instead (raised); and the waits of connect, in ticks: the backoff wait in
\* progress or last made (delay) and the one before it (pdelay), the number
\* of backoff waits made (nback), and the time slept since the call's last
\* channel.connect ended (slept); and the parity of the number of calls that
\* have ended in this coroutine (nret)
IdleProc ==
    [pc |-> "idle", fn |-> "none", p |-> 0, g |-> 0, channel |-> "none", attempt |-> 0,
     h |-> None, fc |-> FALSE, stack |-> <<>>, nconn |-> 0, chk1 |-> FALSE, chk2 |-> FALSE,
     caught |-> FALSE, ret |-> FALSE, raised |-> FALSE,
     q |-> 0, target |-> "none", song |-> None, ok |-> FALSE,
     delay |-> 0, pdelay |-> 0, nback |-> 0, slept |-> 0, nret |-> 0]

DoneTimer == [IdleProc EXCEPT !.pc = "done", !.fn = "timer"]

RECURSIVE Resume(_, _, _)

\* `return val`: back to the caller, or the end of the call
Return(w, t, val) ==
    IF w.pr[t].stack = <<>>
    THEN [w EXCEPT !.pr[t].pc = "idle", !.pr[t].ret = val, !.pr[t].nret = 1 - @,
                   !.pr[t].attempt = 0, !.pr[t].h = None, !.pr[t].fc = FALSE]
    ELSE Resume(w, t, val)

\* an exception leaves the call
Raise(w, t) ==
    [w EXCEPT !.pr[t].pc = "idle", !.pr[t].raised = TRUE, !.pr[t].stack = <<>>,
              !.pr[t].nret = 1 - @, !.pr[t].attempt = 0, !.pr[t].h = None,
              !.pr[t].fc = FALSE]

\* Player.is_connected (property)
is_connected(w, p) ==
    /\ w.pl[p].voice_client # None
    /\ vc_is_connected(w, w.pl[p].voice_client)

\* Task.cancel() on an idle-timer task: asleep, it ends (CancelledError is
\* passed at player.py:246); inside disconnect's await, CancelledError is
\* raised there and disconnect's finally clause is still to run
CancelTask(w, tm) ==
    CASE w.pr[tm].pc = "t_sleep" -> [w EXCEPT !.pr[tm].pc = "done"]
      [] w.pr[tm].pc = "d_await" -> [w EXCEPT !.pr[tm].pc = "d_cancelled"]
      [] OTHER -> w

\* Player._cancel_disconnect_timer without the cancel: the reference is
\* dropped, the task lives on
_cancel_disconnect_timer_Dropped(w, p, t) ==
    LET tm == w.pl[p]._disconnect_timer IN
    IF tm # None /\ w.pr[tm].pc # "done"
    THEN [w EXCEPT !.pl[p]._disconnect_timer = None]
    ELSE w

\* Player._cancel_disconnect_timer, called by coroutine t
_cancel_disconnect_timer(w, p, t) ==
    LET tm == w.pl[p]._disconnect_timer IN
    IF tm # None /\ w.pr[tm].pc # "done"
    THEN [(IF tm = t THEN w ELSE CancelTask(w, tm)) EXCEPT !.pl[p]._disconnect_timer = None]
    ELSE w

\* the tasks start_disconnect_timer of Player p can make: those that have
\* ended and that no other Player refers to
FreeTimers(w, p) ==
    { tm \in TimerTasks :
        /\ w.pr[tm].pc = "done"
        /\ \A p2 \in 1..Len(w.pl) : p2 # p => w.pl[p2]._disconnect_timer # tm }

\* the model has a task left for start_disconnect_timer of Player p
TimerAvailable(w, p, t) == FreeTimers(_cancel_disconnect_timer(w, p, t), p) # {}

\* Player.start_disconnect_timer, called by coroutine t of guild g.
\* create_task makes a new task: the first free one, and not the one that
\* has just been cancelled while another is free
start_disconnect_timer(w, p, g, t) ==
    LET w1 == _cancel_disconnect_timer(w, p, t)
        others == FreeTimers(w1, p) \ {w.pl[p]._disconnect_timer}
        free == IF others # {} THEN others ELSE FreeTimers(w1, p)
        tm == CHOOSE x \in free : \A y \in free : x <= y
    IN [w1 EXCEPT !.pl[p]._disconnect_timer = tm,
                  !.pr[tm] = [IdleProc EXCEPT !.pc = "t_sleep", !.fn = "timer", !.p = p,
                                            !.g = g, !.stack = <<"timer_end">>]]

\* Player.play: the world afterwards and whether it raised.
\* VoiceClient.play raises ClientException on a handle that is not connected;
\* on a connected one it starts a new AudioPlayer (one that was paused is
\* dropped without its `after` being called)
play(w, p) ==
    LET h == w.pl[p].voice_client IN
    IF h # None /\ w.vc[h].audio # "playing"
    THEN IF ~vc_is_connected(w, h) THEN [w |-> w, raised |-> TRUE]
         ELSE [w |-> [w EXCEPT !.vc[h].audio = "playing",
                               !.pl[p].is_playing = TRUE, !.pl[p].is_paused = FALSE],
               raised |-> FALSE]
    ELSE [w |-> w, raised |-> FALSE]

\* Player.stop
stop(w, p) ==
    LET h == w.pl[p].voice_client
        w1 == IF h # None /\ w.vc[h].audio = "playing" THEN vc_stop(w, h) ELSE w
    IN [w1 EXCEPT !.pl[p].is_playing = FALSE, !.pl[p].is_paused = FALSE,
                  !.pl[p].current_song = None]

\* Player.pause
pause(w, p) ==
    LET h == w.pl[p].voice_client IN
    IF h # None /\ w.vc[h].audio = "playing"
    THEN [w EXCEPT !.vc[h].audio = "paused", !.pl[p].is_paused = TRUE]
    ELSE w

\* Player.resume
resume(w, p) ==
    LET h == w.pl[p].voice_client IN
    IF h # None /\ w.vc[h].audio = "paused"
    THEN [w EXCEPT !.vc[h].audio = "playing", !.pl[p].is_paused = FALSE]
    ELSE w

\* Player.toggle_repeat
toggle_repeat(w, p) == [w EXCEPT !.pl[p].repeat_mode = ~@]

\* --------------------------------------------------------- Player.connect
RECURSIVE Pow(_, _)
Pow(b, n) == IF n <= 0 THEN 1 ELSE b * Pow(b, n - 1)

Min(a, b) == IF a <= b THEN a ELSE b

\* Durations are counted in ticks of 2^-max_retries s, so that every
\* retry_delay * 1.5 ** (attempt - 1) the loop can compute is a whole number
\* of ticks (the float product is exact too: 3^n fits a double's mantissa
\* for every n a retry loop is run with).
Second(w) == Pow(2, w.cfg.VOICE_RECONNECT_ATTEMPTS)

\* player.py:92 without the ceiling of player.py:93
BackoffDelay_NoCeiling(w, attempt) ==
    w.cfg.VOICE_RETRY_DELAY
        * Pow(3, attempt - 1) * Pow(2, w.cfg.VOICE_RECONNECT_ATTEMPTS - (attempt - 1))

\* player.py:92-93: delay = min(retry_delay * 1.5 ** (attempt - 1), 20)
BackoffDelay(w, attempt) ==
    LET retry_delay == w.cfg.VOICE_RETRY_DELAY
        delay == retry_delay
                    * Pow(3, attempt - 1) * Pow(2, w.cfg.VOICE_RECONNECT_ATTEMPTS - (attempt - 1))
    IN Min(delay, 20 * Second(w))

\* player.py:90-97: the backoff sleep before every attempt but the first,
\* then the call of channel.connect
AfterCleanup(w, t) ==
    IF w.pr[t].attempt > 0
    THEN [w EXCEPT !.pr[t].pc = "c_backoff",
                   !.pr[t].pdelay = w.pr[t].delay,
                   !.pr[t].delay = BackoffDelay(w, w.pr[t].attempt),
                   !.pr[t].nback = @ + 1]
    ELSE [w EXCEPT !.pr[t].pc = "c_conn", !.pr[t].nconn = @ + 1]

\* the retry loop that runs one attempt too many
ConnectLoop_OneMore(w, t) ==
    LET p == w.pr[t].p
        h == w.pl[p].voice_client
    IN
    IF w.pr[t].attempt > w.cfg.VOICE_RECONNECT_ATTEMPTS THEN Return(w, t, FALSE)
    ELSE IF h # None
    THEN [(IF vc_is_connected(w, h) THEN vc_disconnect(w, h) ELSE w)
             EXCEPT !.pr[t].pc = "c_cleanup"]
    ELSE AfterCleanup(w, t)

\* player.py:77-88: the head of the retry loop, up to its first await.  With
\* a handle stored, the cleanup disconnects it if it reports connected and
\* sleeps 3 s; the loop ends when the attempts are used up (player.py:159)
ConnectLoop(w, t) ==
    LET p == w.pr[t].p
        h == w.pl[p].voice_client
    IN
    IF w.pr[t].attempt >= w.cfg.VOICE_RECONNECT_ATTEMPTS THEN Return(w, t, FALSE)
    ELSE IF h # None
    THEN [(IF vc_is_connected(w, h) THEN vc_disconnect(w, h) ELSE w)
             EXCEPT !.pr[t].pc = "c_cleanup"]
    ELSE AfterCleanup(w, t)

\* the next iteration of `for attempt in range(max_retries)`
NextAttempt(w, t) == ConnectLoop([w EXCEPT !.pr[t].attempt = @ + 1], t)

\* Player.connect(channel), up to its first await
connect(w, t, channel) ==
    ConnectLoop([w EXCEPT !.pr[t].channel = channel, !.pr[t].attempt = 0,
                          !.pr[t].nconn = 0, !.pr[t].chk1 = FALSE,
                          !.pr[t].chk2 = FALSE, !.pr[t].delay = 0, !.pr[t].pdelay = 0,
                          !.pr[t].nback = 0, !.pr[t].slept = 0], t)

\* player.py:83-88: the cleanup's awaits are over: disconnect has returned
\* and the 3 s sleep is over, or disconnect has raised, which skips the
\* sleep; finally: voice_client = None
ConnectCleanupDone(w, t, raised) ==
    AfterCleanup([w EXCEPT !.pl[w.pr[t].p].voice_client = None,
                           !.pr[t].slept = IF raised THEN @ ELSE @ + 3 * Second(w)], t)

\* player.py:95: the backoff sleep is over, channel.connect is called
ConnectBackoffDone(w, t) ==
    [w EXCEPT !.pr[t].pc = "c_conn", !.pr[t].nconn = @ + 1,
              !.pr[t].slept = @ + w.pr[t].delay]

\* the except clauses of player.py:123-148, without the `except Exception`
\* of player.py:150
ConnectHandler_NoCatchAll(outcome) ==
    CASE outcome = "timeout" -> "TimeoutError"
      [] outcome \in {"closed4006", "closed"} -> "ConnectionClosed"
      [] outcome \in {"already", "opus", "client"} -> "ClientException"
      [] OTHER -> "uncaught"

\* the except clause of player.py:123-157 that catches what channel.connect
\* raised
ConnectHandler(outcome) ==
    CASE outcome = "timeout" -> "TimeoutError"
      [] outcome \in {"closed4006", "closed"} -> "ConnectionClosed"
      [] outcome \in {"already", "opus", "client"} -> "ClientException"
      [] OTHER -> "Exception"

\* player.py:128-132 and 153-157 without the session delay
SessionDelay_Skipped(w, t) == NextAttempt(w, t)

\* player.py:128-132 and 153-157: the 12 s session delay, unless this was the
\* last attempt
SessionDelay(w, t) ==
    IF w.pr[t].attempt < w.cfg.VOICE_RECONNECT_ATTEMPTS - 1
    THEN [w EXCEPT !.pr[t].pc = "c_session"]
    ELSE NextAttempt(w, t)

\* player.py:134-148 with the opus error logged like any other client error
ConnectClientError_OpusRetried(w, t, outcome) ==
    LET p == w.pr[t].p IN
    IF outcome = "already"
    THEN IF w.pl[p].voice_client # None
         THEN [vc_disconnect(w, w.pl[p].voice_client) EXCEPT !.pr[t].pc = "c_already"]
         ELSE NextAttempt(w, t)
    ELSE NextAttempt(w, t)

\* player.py:134-148: channel.connect has raised ClientException
ConnectClientError(w, t, outcome) ==
    LET p == w.pr[t].p IN
    IF outcome = "already"
    THEN IF w.pl[p].voice_client # None
         THEN [vc_disconnect(w, w.pl[p].voice_client) EXCEPT !.pr[t].pc = "c_already"]
         ELSE NextAttempt(w, t)
    ELSE IF outcome = "opus" THEN Return(w, t, FALSE)
    ELSE NextAttempt(w, t)

\* player.py:100-157: awaiting channel.connect has ended in `outcome`
ConnectTransport(w, t, outcome) ==
    LET p == w.pr[t].p
        hnew == Len(w.vc) + 1
        handler == ConnectHandler(outcome)
        w0 == [w EXCEPT !.pr[t].slept = 0]
    IN
    LET wc == [w0 EXCEPT !.pr[t].caught = TRUE] IN
    CASE outcome \in {"ok", "unconnected"} ->
            LET st == IF outcome = "ok" THEN "connected" ELSE "lost"
                w1 == [w0 EXCEPT !.vc = Append(@, NewHandle(w.pr[t].g, p, w.pr[t].channel, st)),
                                !.pl[p].voice_client = hnew,
                                !.pr[t].h = hnew,
                                !.pr[t].chk1 = (outcome = "ok"),
                                !.pr[t].chk2 = FALSE]
            IN IF outcome = "ok"
               THEN [w1 EXCEPT !.pr[t].pc = "c_stable"]     \* player.py:111
               ELSE NextAttempt(w1, t)                      \* player.py:119-121
      [] handler = "TimeoutError" -> NextAttempt(wc, t)
      [] handler = "ConnectionClosed" ->
            IF outcome = "closed4006" THEN SessionDelay(wc, t) ELSE NextAttempt(wc, t)
      [] handler = "ClientException" -> ConnectClientError(wc, t, outcome)
      [] handler = "Exception" ->
            IF outcome = "session_error" THEN SessionDelay(wc, t) ELSE NextAttempt(wc, t)
      [] OTHER -> Raise(w, t)

\* player.py:111-118 without the second is_connected() test
ConnectStable_NoRecheck(w, t) ==
    LET p == w.pr[t].p
        h == w.pl[p].voice_client
    IN
    IF h = None THEN NextAttempt(w, t)
    ELSE Return(_cancel_disconnect_timer(
                    [w EXCEPT !.pr[t].chk2 = vc_is_connected(w, w.pr[t].h)], p, t), t, TRUE)

\* player.py:111: the 1 s sleep has been slept
Stabilised(w, t) == [w EXCEPT !.pr[t].slept = @ + Second(w)]

\* player.py:111-118: the 1 s sleep is over.  self.voice_client is read
\* again: None raises AttributeError, caught at player.py:150
ConnectStable(w, t) ==
    LET p == w.pr[t].p
        h == w.pl[p].voice_client
    IN
    IF h = None THEN NextAttempt(Stabilised(w, t), t)
    ELSE IF ~vc_is_connected(w, h) THEN NextAttempt(Stabilised(w, t), t)
    ELSE Return(_cancel_disconnect_timer(
                    [w EXCEPT !.pr[t].chk2 = vc_is_connected(w, w.pr[t].h)], p, t), t, TRUE)

\* player.py:132 and 157: the session delay is over
ConnectSessionDone(w, t) == NextAttempt([w EXCEPT !.pr[t].slept = @ + 12 * Second(w)], t)

\* player.py:139-143: disconnect and the 3 s sleep are over (or raised, which
\* the bare except passes); voice_client = None
ConnectAlreadyDone(w, t, raised) ==
    NextAttempt([w EXCEPT !.pl[w.pr[t].p].voice_client = None,
                          !.pr[t].slept = IF raised THEN @ ELSE @ + 3 * Second(w)], t)

\* ------------------------------------------------------ Player.disconnect
\* player.py:184-187
DisconnectTail(w, t) ==
    LET p == w.pr[t].p
        w1 == [w EXCEPT !.pl[p].is_playing = FALSE, !.pl[p].is_paused = FALSE,
                        !.pl[p].current_song = None]
    IN Return(_cancel_disconnect_timer(w1, p, t), t, FALSE)

\* Player.disconnect without the test of player.py:164: with no handle,
\* self.voice_client.is_playing() raises AttributeError outside the try
DisconnectNoHandle_Unguarded(w, t) == Raise(w, t)

\* player.py:164 with voice_client None: player.py:184-187 are all that runs
DisconnectNoHandle(w, t) == DisconnectTail(w, t)

\* Player.disconnect(force_cleanup), up to its first await; h is the handle
\* that is torn down
disconnect(w, t, force_cleanup) ==
    LET p == w.pr[t].p
        h == w.pl[p].voice_client
    IN
    IF h # None
    THEN LET w1 == stop(w, p)
             w2 == IF w1.vc[h].audio = "playing" THEN vc_stop(w1, h) ELSE w1
         IN [vc_disconnect(w2, h) EXCEPT !.pr[t].pc = "d_await", !.pr[t].fc = force_cleanup,
                                         !.pr[t].h = h]
    ELSE DisconnectNoHandle(w, t)

\* player.py:172-182 without the finally clause: an exception of the
\* teardown leaves the handle in place
DisconnectDone_NoFinally(w, t, raised) ==
    IF w.pr[t].fc /\ ~raised
    THEN [w EXCEPT !.pr[t].pc = "d_settle"]
    ELSE DisconnectTail([w EXCEPT !.pl[w.pr[t].p].voice_client = IF raised THEN @ ELSE None,
                                  !.pr[t].caught = @ \/ raised], t)

\* player.py:172-182: awaiting VoiceClient.disconnect has ended, raised or not
DisconnectDone(w, t, raised) ==
    IF w.pr[t].fc /\ ~raised
    THEN [w EXCEPT !.pr[t].pc = "d_settle"]
    ELSE DisconnectTail([w EXCEPT !.pl[w.pr[t].p].voice_client = None,
                                  !.pr[t].caught = @ \/ raised], t)

\* player.py:177-182: the 2 s settle sleep is over
DisconnectSettled(w, t) ==
    DisconnectTail([w EXCEPT !.pl[w.pr[t].p].voice_client = None], t)

\* player.py:181-182 in a cancelled idle-timer task: the finally clause runs,
\* CancelledError goes on to player.py:246
DisconnectCancelled(w, t) ==
    [w EXCEPT !.pl[w.pr[t].p].voice_client = None, !.pr[t] = DoneTimer]

\* ----------------------------------------------- Player.ensure_connection
\* player.py:203-207 and 224
EnsureValidate(w, t) ==
    LET h == w.pl[w.pr[t].p].voice_client IN
    IF h # None /\ ~vc_is_connected(w, h)
    THEN connect(w, t, w.pr[t].channel)
    ELSE Return(w, t, TRUE)

\* Player.ensure_connection(channel), up to its first await
ensure_connection(w, t, channel) ==
    LET p == w.pr[t].p
        h == w.pl[p].voice_client
        w1 == [w EXCEPT !.pr[t].channel = channel]
    IN
    IF ~is_connected(w, p) THEN connect(w, t, channel)
    ELSE IF w.vc[h].channel # channel THEN [w1 EXCEPT !.pr[t].pc = "e_move", !.pr[t].h = h]
    ELSE EnsureValidate(w1, t)

\* what awaiting VoiceClient.move_to can end in.  move_to asks the gateway
\* for the change of channel: it returns also when the connection has gone
\* in the meantime
MoveOutcomes == {"ok", "closed4006", "closed", "error"}

\* player.py:199-222: awaiting move_to has ended in `outcome`
EnsureMoved(w, t, outcome) ==
    LET wc == [w EXCEPT !.pr[t].caught = TRUE] IN
    CASE outcome = "ok" ->
            EnsureValidate([w EXCEPT !.vc[w.pr[t].h].channel =
                                        IF vc_is_connected(w, w.pr[t].h)
                                        THEN w.pr[t].channel ELSE @], t)
      [] outcome = "closed4006" ->
            disconnect([wc EXCEPT !.pr[t].stack = <<"e_sleep_connect">> \o @], t, TRUE)
      [] outcome = "closed" -> connect(wc, t, w.pr[t].channel)
      [] OTHER ->
            disconnect([wc EXCEPT !.pr[t].stack = <<"e_connect">> \o @], t, TRUE)

\* player.py:214-215: the 3 s sleep is over
EnsureWaited(w, t) == connect(w, t, w.pr[t].channel)

\* ------------------------------------------- Player._disconnect_after_timeout
\* player.py:242-245 without the test of is_playing
TimerFired_WhilePlaying(w, t) ==
    LET p == w.pr[t].p IN
    IF w.pl[p].voice_client # None
    THEN disconnect(w, t, FALSE)
    ELSE [w EXCEPT !.pr[t] = DoneTimer]

\* player.py:242-245: the timeout has elapsed
TimerFired(w, t) ==
    LET p == w.pr[t].p IN
    IF ~w.pl[p].is_playing /\ w.pl[p].voice_client # None
    THEN disconnect(w, t, FALSE)
    ELSE [w EXCEPT !.pr[t] = DoneTimer]

\* --------------------------------------------------------------- MusicCog
\* MusicCog.__init__: the dicts players and queues, keyed by guild id; None
\* stands for a key that is absent
NewCog == [players |-> [g \in Guilds |-> None], queues |-> [g \in Guilds |-> None]]

\* history: the guild the last step was taken for (g), the instances
\* _get_player and _get_queue have returned for each guild (gotP, gotQ), the
\* guild each instance was constructed for (madeP, madeQ), the number of songs
\* the resolver has returned (nres), the songs VoiceClient.play was called
\* with, each at its first start (started), whether the queue has been
\* reordered or cleared (reordered), the number of commands issued, up to
\* MaxCmds (ncmd), where connect is studied for its waits, what each
\* channel.connect of the current call has ended in (outs), and, where skip
\* is studied for its progress, the song that was next in the queue and the
\* handle the Player held when the last skip was accepted (skipped, skiph)
NoHist ==
    [g |-> None, gotP |-> [g \in Guilds |-> {}], gotQ |-> [g \in Guilds |-> {}],
     madeP |-> <<>>, madeQ |-> <<>>, nres |-> 0, started |-> <<>>, reordered |-> FALSE,
     ncmd |-> 0, outs |-> <<>>, skipped |-> None, skiph |-> None]

\* MusicCog._get_player with one entry for every guild
_get_player_OneForAll(w, g) ==
    IF \A k \in Guilds : w.cog.players[k] = None
    THEN [w |-> [w EXCEPT !.pl = Append(@, NewPlayer),
                          !.cog.players = [k \in Guilds |-> Len(w.pl) + 1]],
          ret |-> Len(w.pl) + 1]
    ELSE [w |-> w, ret |-> w.cog.players[g]]

\* MusicCog._get_player: the world afterwards and the instance returned
_get_player(w, g) ==
    IF w.cog.players[g] = None
    THEN [w |-> [w EXCEPT !.pl = Append(@, NewPlayer), !.cog.players[g] = Len(w.pl) + 1],
          ret |-> Len(w.pl) + 1]
    ELSE [w |-> w, ret |-> w.cog.players[g]]

\* MusicCog._get_queue that constructs on every call
_get_queue_AlwaysNew(w, g) ==
    [w |-> [w EXCEPT !.qu = Append(@, NewQueue(MAX_QUEUE_SIZE)),
                     !.cog.queues[g] = Len(w.qu) + 1],
     ret |-> Len(w.qu) + 1]

\* MusicCog._get_queue with one entry for every guild
_get_queue_OneForAll(w, g) ==
    IF \A k \in Guilds : w.cog.queues[k] = None
    THEN [w |-> [w EXCEPT !.qu = Append(@, NewQueue(MAX_QUEUE_SIZE)),
                          !.cog.queues = [k \in Guilds |-> Len(w.qu) + 1]],
          ret |-> Len(w.qu) + 1]
    ELSE [w |-> w, ret |-> w.cog.queues[g]]

\* MusicCog._get_queue: the world afterwards and the instance returned
_get_queue(w, g) ==
    IF w.cog.queues[g] = None
    THEN [w |-> [w EXCEPT !.qu = Append(@, NewQueue(MAX_QUEUE_SIZE)),
                          !.cog.queues[g] = Len(w.qu) + 1],
          ret |-> Len(w.qu) + 1]
    ELSE [w |-> w, ret |-> w.cog.queues[g]]

\* `player = self._get_player(ctx.guild)` in coroutine t, with its history
GetPlayer(w, t) ==
    LET g == w.pr[t].g
        r == _get_player(w, g)
    IN [r.w EXCEPT !.pr[t].p = r.ret,
                   !.hist.gotP[g] = @ \cup {r.ret},
                   !.hist.madeP = IF Len(r.w.pl) > Len(w.pl) THEN Append(@, g) ELSE @]

\* `queue = self._get_queue(ctx.guild)` in coroutine t, with its history
GetQueue(w, t) ==
    LET g == w.pr[t].g
        r == _get_queue(w, g)
    IN [r.w EXCEPT !.pr[t].q = r.ret,
                   !.hist.gotQ[g] = @ \cup {r.ret},
                   !.hist.madeQ = IF Len(r.w.qu) > Len(w.qu) THEN Append(@, g) ELSE @]

\* a call is made whose return resumes the caller at `label`
Push(w, t, label) == [w EXCEPT !.pr[t].stack = <<label>> \o @]

\* the command or scheduled coroutine t is over (its last `await ctx.send`
\* has nothing after it)
EndCmd(w, t) == [w EXCEPT !.pr[t] = IdleProc]

\* the queue has been cleared or reordered
Reordered(w) == [w EXCEPT !.hist.reordered = TRUE]

\* -------------------------------------- MusicCog._ensure_voice_connection
\* music.py:219-262, up to its first await; voice is the channel of
\* ctx.author.voice, "none" without one
_ensure_voice_connection(w, t, voice) ==
    LET w1 == [GetPlayer(w, t) EXCEPT !.pr[t].target = voice]
        p == w1.pr[t].p
    IN
    IF voice = "none" THEN Return([w1 EXCEPT !.pr[t].target = "none"], t, FALSE)
    ELSE IF ~is_connected(w1, p) THEN [w1 EXCEPT !.pr[t].pc = "v_connect"]
    ELSE ensure_connection(Push(w1, t, "v_ensured"), t, voice)

\* music.py:235 and 264: the message is sent (or the delay is over),
\* player.connect(target_channel) is called
VoiceConnect(w, t) == connect(Push(w, t, "v_connected"), t, w.pr[t].target)

\* music.py:236-248 and 265-273: connect has returned; the messages are sent
\* before the function returns
VoiceConnected(w, t, success) == [w EXCEPT !.pr[t].pc = "v_reply", !.pr[t].ok = success]

\* music.py:247-248, 272-275: `return False` or `return True`
VoiceReplied(w, t) ==
    Return([w EXCEPT !.pr[t].pc = "run", !.pr[t].ok = FALSE, !.pr[t].target = "none"],
           t, w.pr[t].ok)

\* music.py:251-256: ensure_connection has returned
VoiceEnsured(w, t, success) ==
    IF success THEN Return([w EXCEPT !.pr[t].target = "none"], t, TRUE)
    ELSE [w EXCEPT !.pr[t].pc = "v_lost"]

\* music.py:258: the message is sent, player.disconnect(force_cleanup=True)
VoiceLost(w, t) == disconnect(Push(w, t, "v_cleared"), t, TRUE)

\* music.py:261-262: disconnect has returned, the delay starts
VoiceCleared(w, t) == [w EXCEPT !.pr[t].pc = "v_delay"]

\* ---------------------------------------------------- MusicCog._play_next
RECURSIVE _play_next(_, _, _)

\* music.py:333-369: the stream is ready.  An exception of player.play is
\* caught at music.py:364; without one the function ends after its message
PlayNextStart(w, t) ==
    LET p == w.pr[t].p
        song == w.pr[t].song
        w1 == [w EXCEPT !.pl[p].current_song = song]
        r == play(w1, p)
        started == r.w.vc # w1.vc
    IN
    IF r.raised THEN [r.w EXCEPT !.pr[t].pc = "n_error", !.pr[t].song = None]
    ELSE Return([r.w EXCEPT !.pr[t].song = None,
                            !.hist.started =
                                IF started /\ \A i \in 1..Len(@) : @[i] # song
                                THEN Append(@, song) ELSE @],
                t, TRUE)

\* music.py:294-310: the voice connection is checked, then regather_stream
\* is awaited
PlayNextSong(w, t, voice) ==
    IF ~is_connected(w, w.pr[t].p)
    THEN IF voice # "none"
         THEN _ensure_voice_connection(Push(w, t, "n_ensured"), t, voice)
         ELSE Return([w EXCEPT !.pr[t].song = None], t, FALSE)
    ELSE [w EXCEPT !.pr[t].pc = "n_regather"]

\* music.py:300-302: _ensure_voice_connection has returned
PlayNextEnsured(w, t, success) ==
    IF success THEN [w EXCEPT !.pr[t].pc = "n_regather"]
    ELSE Return([w EXCEPT !.pr[t].song = None], t, FALSE)

\* MusicCog._play_next(ctx), up to its first await
_play_next(w, t, voice) ==
    LET w1 == GetQueue(GetPlayer(w, t), t)
        p == w1.pr[t].p
        q == w1.pr[t].q
        r == get_next(w1.qu[q])
    IN
    IF w1.pl[p].repeat_mode /\ w1.pl[p].current_song # None
    THEN PlayNextSong([w1 EXCEPT !.pr[t].song = w1.pl[p].current_song], t, voice)
    ELSE IF is_empty(w1.qu[q])
    THEN Return(start_disconnect_timer([w1 EXCEPT !.pl[p].is_playing = FALSE],
                                       p, w1.pr[t].g, t), t, FALSE)
    ELSE PlayNextSong([w1 EXCEPT !.qu[q] = r.q, !.pr[t].song = r.ret], t, voice)

\* music.py:310-334: awaiting regather_stream has ended
PlayNextGathered(w, t, loaded, voice) ==
    LET p == w.pr[t].p IN
    IF loaded THEN PlayNextStart(w, t)
    ELSE IF w.pl[p].repeat_mode
    THEN [w EXCEPT !.pl[p].repeat_mode = FALSE, !.pr[t].pc = "n_skip", !.pr[t].song = None]
    ELSE _play_next([w EXCEPT !.pr[t].song = None], t, voice)

\* music.py:318: the messages are sent, the next song is tried
PlayNextSkipped(w, t, voice) == _play_next(w, t, voice)

\* music.py:366-369: the error message is sent
PlayNextFailed(w, t, voice) ==
    IF is_connected(w, w.pr[t].p) THEN _play_next(w, t, voice)
    ELSE Return(w, t, FALSE)

\* after_song(error) (music.py:322-331), called by the player thread of
\* handle h; t is the task run_coroutine_threadsafe makes
after_song(w, h, error, t) ==
    LET p == w.vc[h].owner IN
    IF error THEN [w EXCEPT !.pl[p].is_playing = FALSE]
    ELSE IF is_connected(w, p)
    THEN [w EXCEPT !.pr[t] = [IdleProc EXCEPT !.pc = "n_start", !.fn = "_play_next",
                                              !.g = w.vc[h].guild,
                                              !.stack = <<"cmd_end">>]]
    ELSE w

\* ------------------------------------------------------------ the commands
\* MusicCog.play (music.py:66-82), up to its first await
MusicCog_play(w, t, voice) ==
    LET w1 == GetQueue(GetPlayer(w, t), t) IN
    IF is_full(w1.qu[w1.pr[t].q]) THEN EndCmd(w1, t)
    ELSE _ensure_voice_connection(Push(w1, t, "p_ensured"), t, voice)

\* music.py:81-102: _ensure_voice_connection has returned; then ctx.typing()
\* and, in _handle_single_song, create_source are awaited
PlayEnsured(w, t, success) ==
    IF ~success THEN EndCmd(w, t)
    ELSE [GetQueue(GetPlayer(w, t), t) EXCEPT !.pr[t].pc = "p_resolve"]

\* music.py:102-143: create_source has returned `song` (None for nothing
\* found or a song over the maximum duration) or has raised (music.py:95)
PlayResolved(w, t, song, raised) ==
    LET q == w.pr[t].q
        r == add(w.qu[q], song)
    IN
    IF raised THEN EndCmd(w, t)
    ELSE IF song = None THEN [w EXCEPT !.pr[t].pc = "p_added"]
    ELSE [w EXCEPT !.qu[q] = r.q, !.hist.nres = @ + 1, !.pr[t].pc = "p_added"]

\* music.py:93-94: the message of _handle_single_song is sent
PlayAdded(w, t, voice) ==
    LET p == w.pr[t].p
        q == w.pr[t].q
    IN
    IF ~w.pl[p].is_playing /\ ~is_empty(w.qu[q]) THEN _play_next(w, t, voice)
    ELSE EndCmd(w, t)

\* MusicCog.skip
MusicCog_skip(w, t) ==
    LET w1 == GetPlayer(w, t)
        p == w1.pr[t].p
    IN
    IF ~w1.pl[p].is_playing THEN EndCmd(w1, t)
    ELSE EndCmd(stop([w1 EXCEPT !.pl[p].repeat_mode = FALSE], p), t)

\* MusicCog.stop
MusicCog_stop(w, t) ==
    LET w1 == GetPlayer(GetQueue(w, t), t)
        p == w1.pr[t].p
        q == w1.pr[t].q
    IN EndCmd(stop([Reordered(w1) EXCEPT !.qu[q] = clear(@), !.pl[p].repeat_mode = FALSE], p), t)

\* MusicCog.pause
MusicCog_pause(w, t) ==
    LET w1 == GetPlayer(w, t)
        p == w1.pr[t].p
    IN
    IF ~w1.pl[p].is_playing \/ w1.pl[p].is_paused THEN EndCmd(w1, t)
    ELSE EndCmd(pause(w1, p), t)

\* MusicCog.resume
MusicCog_resume(w, t) ==
    LET w1 == GetPlayer(w, t)
        p == w1.pr[t].p
    IN
    IF ~w1.pl[p].is_paused THEN EndCmd(w1, t)
    ELSE EndCmd(resume(w1, p), t)

\* MusicCog.repeat
MusicCog_repeat(w, t) ==
    LET w1 == GetPlayer(w, t)
        p == w1.pr[t].p
    IN
    IF w1.pl[p].current_song = None THEN EndCmd(w1, t)
    ELSE EndCmd(toggle_repeat(w1, p), t)

\* MusicCog.disconnect (music.py:631-637), up to its first await
MusicCog_disconnect(w, t) ==
    LET w1 == GetPlayer(w, t) IN
    IF ~is_connected(w1, w1.pr[t].p) THEN EndCmd(w1, t)
    ELSE disconnect(Push(w1, t, "dc_done"), t, FALSE)

\* music.py:638-641: player.disconnect has returned
DisconnectCleared(w, t) ==
    LET w1 == GetQueue(w, t) IN
    EndCmd([Reordered(w1) EXCEPT !.qu[w1.pr[t].q] = clear(@)], t)

\* MusicBot.on_voice_state_update (main.py:87-119): member is "bot" for
\* self.user, before and after are the channels of the two voice states
\* ("none" for no channel).  hasattr(music_cog, 'player') asks the cog for an
\* attribute named player; the model has the Music cog loaded (main.py:53-58).  The branch
\* for a move between channels only logs.
on_voice_state_update(w, member, before, after) ==
    IF member = "bot" /\ before # "none" /\ after = "none"
    THEN IF "player" \in DOMAIN w.cog
         THEN LET player == w.cog.player IN
              IF player # None
              THEN [w EXCEPT !.pl[player].voice_client = None,
                             !.pl[player].is_playing = FALSE,
                             !.pl[player].is_paused = FALSE]
              ELSE w
         ELSE w
    ELSE w

\* ------------------------------------------------------------- returning
\* the caller a coroutine returns to, with the value returned
Resume(w, t, val) ==
    LET label == Head(w.pr[t].stack)
        w1 == [w EXCEPT !.pr[t].stack = Tail(@)]
    IN
    CASE label = "timer_end" -> [w1 EXCEPT !.pr[t] = DoneTimer]
      [] label = "e_sleep_connect" -> [w1 EXCEPT !.pr[t].pc = "e_wait"]
      [] label = "e_connect" -> connect(w1, t, w1.pr[t].channel)
      [] label = "cmd_end" -> EndCmd(w1, t)
      [] label = "v_connected" -> VoiceConnected(w1, t, val)
      [] label = "v_ensured" -> VoiceEnsured(w1, t, val)
      [] label = "v_cleared" -> VoiceCleared(w1, t)
      [] label = "n_ensured" -> PlayNextEnsured(w1, t, val)
      [] label = "p_ensured" -> PlayEnsured(w1, t, val)
      [] label = "dc_done" -> DisconnectCleared(w1, t)
      [] OTHER -> Raise(w1, t)
\* ------------------------------------------------------------ MediaHandler
\* The video pipeline of src/src/cogs/media_handler.py: _process_video_file,
\* _compress_video, _try_compression, the two-pass encoders,
\* _try_aggressive_compression, and _send_video_file with
\* _final_aggressive_compression.  ffprobe and ffmpeg are outside the
\* repository: they are an environment that answers each call.  Sizes are in
\* bytes, durations in whole seconds, bitrates in bits per second; the float
\* arithmetic of the code is taken exactly, int() truncating towards zero.

\* MediaHandler.__init__ (media_handler.py:38): max_file_size
max_file_size == 10 * 1024 * 1024

\* self.target_file_size (media_handler.py:39 sets 8 MB; the comment at
\* media_handler.py:519 speaks of 7 MB): the values a job runs with
TargetSizes == {7000000, 8 * 1024 * 1024}

\* probe['format']['duration'] of the input: 0 when the prober reports none
Durations == {0, 1, 60, 120, 400, 600, 3600}

\* the sizes a file has, the input or what an encoder writes: around the
\* target T and its 5% tolerance, around max_file_size, far below and far above
FileSizes(T) ==
    {3 * 1024 * 1024, T, T + 1, (T * 21) \div 20, (T * 21) \div 20 + 1,
     max_file_size + 1, 50 * 1024 * 1024}

\* the codec pairs in the order _compress_video and
\* _final_aggressive_compression try them (media_handler.py:534-554, 1157-1178)
CodecPairs ==
    <<[vcodec |-> "libx265", acodec |-> "libopus"],
      [vcodec |-> "libx264", acodec |-> "libopus"],
      [vcodec |-> "libx264", acodec |-> "aac"]>>

\* int(num / den) for den > 0: truncation towards zero
Trunc(num, den) ==
    IF num >= 0 THEN num \div den ELSE -((-num) \div den)

Max(a, b) == IF a >= b THEN a ELSE b

\* media_handler.py:518-531: target_video_bitrate of _compress_video (overhead
\* factor 0.9 on what is left after the audio; floor 150 kbps)
compress_video_bitrate(T, duration) ==
    Max(Trunc((Trunc(T * 8, duration) - 48 * 1000) * 9, 10), 150 * 1000)

\* _try_compression with the H.264 floor given to whatever is under the
\* H.265 floor
try_compression_bitrate_FloorJump(T, duration, vcodec) ==
    IF Trunc(T * 8 * 19, 20 * duration) - 48 * 1000 < 80 * 1000 THEN 150 * 1000
    ELSE Trunc(T * 8 * 19, 20 * duration) - 48 * 1000

\* media_handler.py:595-607: target_video_bitrate_bps of _try_compression
\* (overhead factor 0.95 = 19/20)
try_compression_bitrate(T, duration, vcodec) ==
    Max(Trunc(T * 8 * 19, 20 * duration) - 48 * 1000,
        IF vcodec = "libx265" THEN 80 * 1000 ELSE 150 * 1000)

\* media_handler.py:990-1003: target_video_bitrate_bps of
\* _try_aggressive_compression (5 MB, overhead factor 0.90)
aggressive_bitrate(duration, base_bitrate) ==
    Max(Trunc(5 * 1024 * 1024 * 8 * 9, 10 * duration) - 32 * 1000,
        IF base_bitrate < 200000 THEN 60 * 1000 ELSE 100 * 1000)

\* media_handler.py:1127-1137: target_video_bitrate of
\* _final_aggressive_compression (6 MB, overhead factor 0.85 = 17/20 on what
\* is left after the audio)
final_bitrate(duration) ==
    Max(Trunc((Trunc(6 * 1024 * 1024 * 8, duration) - 24 * 1000) * 17, 20), 80 * 1000)

\* The job: one downloaded file on its way through the pipeline.  files maps
\* each path to the size of the file there (None: no file); original is the
\* size of the download; encodes lists the encoder runs started, in order;
\* passlog tells whether pass-log files of a two-pass encode exist; nprobe counts the prober calls and probe is how the last one
\* ended, rc how the last encoder run ended; sent is the size of the file
\* uploaded.
NoJob ==
    [pc |-> "idle", T |-> 0, duration |-> 0, has_video |-> FALSE, original |-> 0,
     files |-> [input |-> None, compressed |-> None, aggressive |-> None,
                final_compressed |-> None],
     k |-> 0, base |-> 0, video_bitrate |-> 0, encodes |-> <<>>, nprobe |-> 0,
     probe |-> "none", rc |-> "none",
     passlog |-> FALSE, ret |-> "none", video_path |-> "none", sent |-> None]

\* _process_video_file or _final_aggressive_compression returns path
Returned(j, path, pc) == [j EXCEPT !.ret = path, !.pc = pc, !.k = 0]

\* _process_video_file without the size test
_process_video_file_AlwaysCompress(j) == [j EXCEPT !.pc = "c_probe"]

\* _process_video_file (media_handler.py:475-495), up to the prober call of
\* _compress_video
_process_video_file(j) ==
    IF j.files.input = None THEN Returned(j, "none", "processed")
    ELSE IF j.files.input <= j.T THEN Returned(j, "input", "processed")
    ELSE [j EXCEPT !.pc = "c_probe"]

\* _compress_video calls _try_compression with the k-th codec pair
\* (media_handler.py:533-554)
StartTry(j, k) == [j EXCEPT !.k = k, !.pc = "t_probe"]

\* media_handler.py:502-537: the prober has answered in _compress_video
\* (outcome "error": ffmpeg.Error; "raise": any other exception, caught at
\* media_handler.py:572)
CompressProbed(j, outcome) ==
    IF outcome # "ok" \/ ~j.has_video \/ j.duration <= 0
    THEN Returned(j, "input", "processed")
    ELSE StartTry([j EXCEPT !.base = compress_video_bitrate(j.T, j.duration)], 1)

\* media_handler.py:556-570: the codec pairs are through, `success` is what
\* the last _try_compression returned
CompressEvaluate(j, success) ==
    IF success /\ j.files.compressed # None
    THEN IF j.files.compressed > j.T
         THEN [j EXCEPT !.pc = "a_probe", !.k = 0]
         ELSE Returned([j EXCEPT !.files.input = None], "compressed", "processed")
    ELSE Returned(j, "input", "processed")

\* media_handler.py:533-554: _try_compression has returned `success` for the
\* k-th pair; the next pair is tried after a failure
TryDone(j, success) ==
    IF ~success /\ j.k < Len(CodecPairs) THEN StartTry(j, j.k + 1)
    ELSE CompressEvaluate(j, success)

\* media_handler.py:580-617: _try_compression has removed an output file
\* left by an earlier pair, and the prober has answered; with a duration the
\* bitrate is planned and pass 1 of the encoder started
TryProbed(j0, outcome) ==
    LET j == [j0 EXCEPT !.files.compressed = None] IN
    IF outcome # "ok" \/ j.duration <= 0 THEN TryDone(j, FALSE)
    ELSE LET vb == try_compression_bitrate(j.T, j.duration, CodecPairs[j.k].vcodec) IN
         [j EXCEPT !.video_bitrate = vb, !.pc = "t_pass1",
                   !.encodes = Append(@, [fn |-> "_try_compression", k |-> j.k,
                                           video_bitrate |-> vb])]

\* _try_aggressive_compression removing the original before it looks at the
\* size of its output
AggressiveEvaluate_RemovesFirst(j, success) ==
    IF success /\ j.files.aggressive # None
    THEN IF j.files.aggressive <= j.T
         THEN Returned([j EXCEPT !.files.input = None], "aggressive", "processed")
         ELSE Returned([j EXCEPT !.files.input = None, !.files.aggressive = None],
                       "input", "processed")
    ELSE Returned(j, "input", "processed")

\* _try_aggressive_compression (media_handler.py:1005-1032): the encoders are
\* through
AggressiveEvaluate(j, success) ==
    IF success /\ j.files.aggressive # None
    THEN IF j.files.aggressive <= j.T
         THEN Returned([j EXCEPT !.files.input = None], "aggressive", "processed")
         ELSE Returned([j EXCEPT !.files.aggressive = None], "input", "processed")
    ELSE Returned(j, "input", "processed")

\* media_handler.py:1005-1016: a scaled two-pass encode has returned
\* `success`; after the H.265 one fails the H.264 one is started
AggressiveDone(j, success) ==
    IF ~success /\ j.k < 2
    THEN [j EXCEPT !.k = 2, !.pc = "a_pass1",
                   !.encodes = Append(@, [fn |-> "_try_aggressive_compression", k |-> 2,
                                           video_bitrate |-> j.video_bitrate])]
    ELSE AggressiveEvaluate(j, success)

\* media_handler.py:979-1009: the prober has answered in
\* _try_aggressive_compression
AggressiveProbed(j, outcome) ==
    IF outcome # "ok" \/ j.duration <= 0 THEN Returned(j, "input", "processed")
    ELSE LET vb == aggressive_bitrate(j.duration, j.base) IN
         [j EXCEPT !.video_bitrate = vb, !.k = 1, !.pc = "a_pass1",
                   !.encodes = Append(@, [fn |-> "_try_aggressive_compression", k |-> 1,
                                           video_bitrate |-> vb])]

\* a two-pass encoder without the finally clause after pass 1
PassOneDone_NoFinally(j, outcome) ==
    IF outcome = "ok" THEN [j EXCEPT !.pc = IF j.pc = "t_pass1" THEN "t_pass2" ELSE "a_pass2",
                             !.passlog = TRUE]
    ELSE IF j.pc = "t_pass1" THEN TryDone([j EXCEPT !.passlog = TRUE], FALSE)
    ELSE AggressiveDone([j EXCEPT !.passlog = TRUE], FALSE)

\* _two_pass_h265_encode / _two_pass_h264_encode and their scaled variants
\* (media_handler.py:639-719): pass 1 has ended ("ok": return code 0;
\* "fail": another return code; "raise": an exception of the subprocess
\* call); the finally clause removes the pass-log files when the encode
\* ends here
PassOneDone(j, outcome) ==
    IF outcome = "ok" THEN [j EXCEPT !.pc = IF j.pc = "t_pass1" THEN "t_pass2" ELSE "a_pass2",
                             !.passlog = TRUE]
    ELSE IF j.pc = "t_pass1" THEN TryDone([j EXCEPT !.passlog = FALSE], FALSE)
    ELSE AggressiveDone([j EXCEPT !.passlog = FALSE], FALSE)

\* media_handler.py:621-636: _try_compression measures the output of a
\* successful encode (getsize raises when there is none) and accepts it
\* within 5% of the target
TryMeasured(j, success) ==
    TryDone(j, /\ success
               /\ j.files.compressed # None
               /\ j.files.compressed * 20 <= j.T * 21)

\* pass 2 has ended, leaving a file of size out (None: no file) at the
\* output path; the finally clause removes the pass-log files
PassTwoDone(j, outcome, out) ==
    IF j.pc = "t_pass2"
    THEN TryMeasured([j EXCEPT !.files.compressed = out, !.passlog = FALSE],
                     outcome = "ok")
    ELSE AggressiveDone([j EXCEPT !.files.aggressive = out, !.passlog = FALSE],
                        outcome = "ok")

\* _send_video_file (media_handler.py:1034-1044), up to the prober call of
\* _final_aggressive_compression; "sent" is the end of the function, the
\* file removed by its finally clause (media_handler.py:1098-1103)
_send_video_file(j) ==
    LET j1 == [j EXCEPT !.video_path = j.ret] IN
    IF j.files[j.ret] > max_file_size THEN [j1 EXCEPT !.pc = "f_probe"]
    ELSE [j1 EXCEPT !.sent = j.files[j.ret], !.files[j.ret] = None, !.pc = "sent"]

\* media_handler.py:1044-1051 and 1098-1103: _final_aggressive_compression
\* has returned path; a new file replaces video_path, which is removed, and
\* after the upload the file sent is removed
FinalReturned(j, path) ==
    LET j1 == Returned(j, path, "sent")
        j2 == IF path # j.video_path
              THEN [j1 EXCEPT !.files[j.video_path] = None, !.video_path = path]
              ELSE j1
    IN [j2 EXCEPT !.sent = j.files[path], !.files[j2.video_path] = None]

\* _try_final_compression (media_handler.py:1191-1235) is started with the
\* k-th codec pair: an existing output file is removed
StartFinal(j, k) ==
    [j EXCEPT !.k = k, !.files.final_compressed = None, !.pc = "f_encode",
              !.encodes = Append(@, [fn |-> "_final_aggressive_compression", k |-> k,
                                      video_bitrate |-> j.video_bitrate])]

\* media_handler.py:1110-1160: the prober has answered in
\* _final_aggressive_compression
FinalProbed(j, outcome) ==
    IF outcome # "ok" \/ ~j.has_video \/ j.duration <= 0
    THEN FinalReturned(j, j.video_path)
    ELSE StartFinal([j EXCEPT !.video_bitrate = final_bitrate(j.duration)], 1)

\* media_handler.py:1157-1189: the single-pass encoder has ended, leaving a
\* file of size out at the output path
FinalEncoded(j, outcome, out) ==
    LET j1 == [j EXCEPT !.files.final_compressed = out] IN
    IF outcome # "ok" /\ j.k < Len(CodecPairs) THEN StartFinal(j1, j.k + 1)
    ELSE IF outcome = "ok" /\ out # None THEN FinalReturned(j1, "final_compressed")
    ELSE FinalReturned(j1, j.video_path)

\* ---------------------------------------------------- the Queue on its own
\* One Queue(max_size = MAX_QUEUE_SIZE), driven through its public methods
\* with every argument, in range or not.
Indices == -1..MAX_QUEUE_SIZE

NoOp == [op |-> "init", arg |-> <<>>, retb |-> FALSE, rets |-> None, pre |-> <<>>]

InitQueue ==
    /\ queueObj = <<NewQueue(MAX_QUEUE_SIZE)>>
    /\ playerObj = <<>>
    /\ vcObj = <<>>
    /\ proc = [t \in Procs |-> IF t \in CmdTasks THEN IdleProc ELSE DoneTimer]
    /\ cog = NewCog
    /\ config = DefaultConfig
    /\ hist = NoHist
    /\ job = NoJob
    /\ last = NoOp

QAdd(song) ==
    LET r == add(queueObj[1], song) IN
    /\ queueObj' = [queueObj EXCEPT ![1] = r.q]
    /\ last' = [op |-> "add", arg |-> <<song>>, retb |-> r.ret, rets |-> None,
                pre |-> queueObj[1]._queue]
    /\ UNCHANGED <<playerObj, vcObj, proc, cog, config, hist, job>>

QGetNext ==
    LET r == get_next(queueObj[1]) IN
    /\ queueObj' = [queueObj EXCEPT ![1] = r.q]
    /\ last' = [op |-> "get_next", arg |-> <<>>, retb |-> FALSE, rets |-> r.ret,
                pre |-> queueObj[1]._queue]
    /\ UNCHANGED <<playerObj, vcObj, proc, cog, config, hist, job>>

QClear ==
    /\ queueObj' = [queueObj EXCEPT ![1] = clear(@)]
    /\ last' = [op |-> "clear", arg |-> <<>>, retb |-> FALSE, rets |-> None,
                pre |-> queueObj[1]._queue]
    /\ UNCHANGED <<playerObj, vcObj, proc, cog, config, hist, job>>

QRemove(index) ==
    LET r == remove(queueObj[1], index) IN
    /\ queueObj' = [queueObj EXCEPT ![1] = r.q]
    /\ last' = [op |-> "remove", arg |-> <<index>>, retb |-> FALSE, rets |-> r.ret,
                pre |-> queueObj[1]._queue]
    /\ UNCHANGED <<playerObj, vcObj, proc, cog, config, hist, job>>

QMove(from_index, to_index) ==
    LET r == move(queueObj[1], from_index, to_index) IN
    /\ queueObj' = [queueObj EXCEPT ![1] = r.q]
    /\ last' = [op |-> "move", arg |-> <<from_index, to_index>>, retb |-> r.ret,
                rets |-> None, pre |-> queueObj[1]._queue]
    /\ UNCHANGED <<playerObj, vcObj, proc, cog, config, hist, job>>

QShuffle ==
    \E p \in Shuffles(queueObj[1]._queue) :
        /\ queueObj' = [queueObj EXCEPT ![1]._queue = p]
        /\ last' = [op |-> "shuffle", arg |-> <<>>, retb |-> FALSE, rets |-> None,
                    pre |-> queueObj[1]._queue]
        /\ UNCHANGED <<playerObj, vcObj, proc, cog, config, hist, job>>

NextQueue ==
    \/ \E song \in Songs : QAdd(song)
    \/ QGetNext
    \/ QClear
    \/ \E index \in Indices : QRemove(index)
    \/ \E from_index, to_index \in Indices : QMove(from_index, to_index)
    \/ QShuffle

SpecQueue == InitQueue /\ [][NextQueue]_vars

\* ------------------------------------------------- the Player on its own
\* One Player, its methods called one after the other by one caller (command
\* task 1), with the idle-timer tasks and the transport acting in between.
World ==
    [pl |-> playerObj, vc |-> vcObj, pr |-> proc, qu |-> queueObj, cog |-> cog,
     cfg |-> config, hist |-> hist]

Apply(w) ==
    /\ playerObj' = w.pl
    /\ vcObj' = w.vc
    /\ proc' = w.pr
    /\ queueObj' = w.qu
    /\ cog' = w.cog
    /\ config' = w.cfg
    /\ hist' = w.hist

\* a step taken for guild g
Do(g, w) == Apply([w EXCEPT !.hist.g = g]) /\ UNCHANGED <<last, job>>

\* coroutine t starts the call fn on Player p of guild g
Enter(w, t, fn, p, g) ==
    [w EXCEPT !.pr[t] = [IdleProc EXCEPT !.pc = "run", !.fn = fn, !.p = p, !.g = g,
                                            !.nret = w.pr[t].nret]]

\* what awaiting channel.connect can end in, in the state w: with a live
\* voice client in the guild it raises "already connected"; it returns a new
\* handle only while the model has handles left
OutcomesNow(w, g) ==
    IF HasLive(w, g) THEN {"already"}
    ELSE { o \in ConnectOutcomes \ {"already"} :
             o \in {"ok", "unconnected"} => Len(w.vc) < MaxHandles }

InitPlayer ==
    /\ queueObj = <<>>
    /\ playerObj = <<NewPlayer>>
    /\ vcObj = <<>>
    /\ proc = [t \in Procs |-> IF t \in CmdTasks THEN IdleProc ELSE DoneTimer]
    /\ cog = NewCog
    /\ config = DefaultConfig
    /\ hist = NoHist
    /\ job = NoJob
    /\ last = NoOp

CallConnect(t, channel) ==
    /\ proc[t].pc = "idle"
    /\ Do(1, connect(Enter(World, t, "connect", 1, 1), t, channel))

CallEnsureConnection(t, channel) ==
    /\ proc[t].pc = "idle"
    /\ Do(1, ensure_connection(Enter(World, t, "ensure_connection", 1, 1), t, channel))

CallDisconnect(t, force_cleanup) ==
    /\ proc[t].pc = "idle"
    /\ Do(1, disconnect(Enter(World, t, "disconnect", 1, 1), t, force_cleanup))

CallStartTimer(t) ==
    /\ proc[t].pc = "idle"
    /\ TimerAvailable(World, 1, t)
    /\ Do(1, start_disconnect_timer(World, 1, 1, t))

\* the steps of a coroutine, each from one await to the next
StepCleanup(t) ==
    /\ proc[t].pc = "c_cleanup"
    /\ \E raised \in BOOLEAN :
          /\ raised => LET h == playerObj[proc[t].p].voice_client
                       IN h # None /\ vcObj[h].status = "closed"
          /\ Do(proc[t].g, ConnectCleanupDone(World, t, raised))

StepBackoff(t) ==
    /\ proc[t].pc = "c_backoff"
    /\ Do(proc[t].g, ConnectBackoffDone(World, t))

StepTransport(t) ==
    /\ proc[t].pc = "c_conn"
    /\ \E outcome \in OutcomesNow(World, proc[t].g) :
          Do(proc[t].g, ConnectTransport(World, t, outcome))

\* the same step with a transport that has no failures of its own: the
\* connection is made and stays, or the host has no opus library
StepTransportSound(t) ==
    /\ proc[t].pc = "c_conn"
    /\ \E outcome \in OutcomesNow(World, proc[t].g) \cap {"ok", "opus", "already"} :
          Do(proc[t].g, ConnectTransport(World, t, outcome))

StepStable(t) ==
    /\ proc[t].pc = "c_stable"
    /\ Do(proc[t].g, ConnectStable(World, t))

StepSession(t) ==
    /\ proc[t].pc = "c_session"
    /\ Do(proc[t].g, ConnectSessionDone(World, t))

StepAlready(t) ==
    /\ proc[t].pc = "c_already"
    /\ \E raised \in BOOLEAN : Do(proc[t].g, ConnectAlreadyDone(World, t, raised))

StepDisconnect(t) ==
    /\ proc[t].pc = "d_await"
    /\ \E raised \in BOOLEAN : Do(proc[t].g, DisconnectDone(World, t, raised))

StepSettle(t) ==
    /\ proc[t].pc = "d_settle"
    /\ Do(proc[t].g, DisconnectSettled(World, t))

StepCancelled(t) ==
    /\ proc[t].pc = "d_cancelled"
    /\ Do(proc[t].g, DisconnectCancelled(World, t))

StepMove(t) ==
    /\ proc[t].pc = "e_move"
    /\ \E outcome \in MoveOutcomes : Do(proc[t].g, EnsureMoved(World, t, outcome))

StepWait(t) ==
    /\ proc[t].pc = "e_wait"
    /\ Do(proc[t].g, EnsureWaited(World, t))

StepTimer(t) ==
    /\ proc[t].pc = "t_sleep"
    /\ Do(proc[t].g, TimerFired(World, t))

\* the transport drops a connection on its own; the handle's AudioPlayer
\* either waits for a reconnect or is stopped by the transport's own teardown
TransportDrop(h) ==
    /\ vcObj[h].status = "connected"
    /\ \E stops \in BOOLEAN :
          Do(vcObj[h].guild,
             [(IF stops THEN vc_stop(World, h) ELSE World)
                 EXCEPT !.vc[h].status = "lost", !.vc[h].channel = "none"])

NextPlayer ==
    \/ \E channel \in Channels : CallConnect(1, channel)
    \/ \E channel \in Channels : CallEnsureConnection(1, channel)
    \/ \E force_cleanup \in BOOLEAN : CallDisconnect(1, force_cleanup)
    \/ CallStartTimer(1)
    \/ \E t \in Procs :
          \/ StepCleanup(t)
          \/ StepBackoff(t)
          \/ StepTransport(t)
          \/ StepStable(t)
          \/ StepSession(t)
          \/ StepDisconnect(t)
          \/ StepSettle(t)
          \/ StepCancelled(t)
          \/ StepMove(t)
          \/ StepWait(t)
          \/ StepTimer(t)
    \/ \E h \in 1..Len(vcObj) : TransportDrop(h)

SpecPlayer == InitPlayer /\ [][NextPlayer]_vars

\* -------------------------------------------------- connect and its waits
\* One Player under any configuration of config.py, connect called on it by
\* one caller, again and again, with the transport acting in between.  Of
\* the errors channel.connect can raise one of each kind of handling is
\* taken: a timeout (logged, next attempt), the close code 4006 and an error
\* whose text names the session (session delay), and the opus error (abort).
BackoffOutcomes == {"ok", "unconnected", "timeout", "closed4006", "session_error", "opus"}

InitBackoff ==
    /\ queueObj = <<>>
    /\ playerObj = <<NewPlayer>>
    /\ vcObj = <<>>
    /\ proc = [t \in Procs |-> IF t \in CmdTasks THEN IdleProc ELSE DoneTimer]
    /\ cog = NewCog
    /\ config \in [VOICE_RECONNECT_ATTEMPTS : 1..MaxRetries, VOICE_RETRY_DELAY : RetryDelays]
    /\ hist = NoHist
    /\ job = NoJob
    /\ last = NoOp

CallConnectLogged(t, channel) ==
    /\ proc[t].pc = "idle"
    /\ Do(1, connect(Enter([World EXCEPT !.hist.outs = <<>>], t, "connect", 1, 1), t, channel))

StepTransportLogged(t) ==
    /\ proc[t].pc = "c_conn"
    /\ \E outcome \in OutcomesNow(World, proc[t].g) \cap BackoffOutcomes :
          Do(proc[t].g,
             ConnectTransport([World EXCEPT !.hist.outs = Append(@, outcome)], t, outcome))

NextBackoff ==
    \/ CallConnectLogged(1, "chA")
    \/ StepCleanup(1)
    \/ StepBackoff(1)
    \/ StepTransportLogged(1)
    \/ StepStable(1)
    \/ StepSession(1)
    \/ \E h \in 1..Len(vcObj) : TransportDrop(h)

SpecBackoff == InitBackoff /\ [][NextBackoff]_vars

\* ------------------------------------------------------------ the MusicCog
\* Commands arrive for a guild and run as coroutines, the first free task
\* each; the player threads call `after`, songs end, the transport and the
\* idle timers act in between.  The resolver returns a new song every time.
InitMusic ==
    /\ queueObj = <<>>
    /\ playerObj = <<>>
    /\ vcObj = <<>>
    /\ proc = [t \in Procs |-> IF t \in CmdTasks THEN IdleProc ELSE DoneTimer]
    /\ cog = NewCog
    /\ config = DefaultConfig
    /\ hist = NoHist
    /\ job = NoJob
    /\ last = NoOp

\* ctx.author.voice, whenever it is read: the user is in the voice channel
\* chA or in none
Voices == {"chA", "none"}

IdleTasks == { t \in CmdTasks : proc[t].pc = "idle" }

\* the task a new coroutine runs as
NewTask == CHOOSE t \in IdleTasks : \A x \in IdleTasks : t <= x

\* the command fn starts in guild g as coroutine t
StartCmd(t, fn, g) ==
    [World EXCEPT !.pr[t] = [IdleProc EXCEPT !.pc = "run", !.fn = fn, !.g = g,
                                            !.stack = <<"cmd_end">>],
                  !.hist.ncmd = IF @ < MaxCmds \/ @ < MaxSession THEN @ + 1 ELSE @]

\* the model has a task left for the idle timer _play_next may start
TimerGuard(t) ==
    LET p == cog.players[proc[t].g] IN p # None => TimerAvailable(World, p, t)

CmdPlay(g) ==
    /\ IdleTasks # {}
    /\ \E voice \in Voices :
          Do(g, MusicCog_play(StartCmd(NewTask, "play", g), NewTask, voice))

CmdSkip(g) ==
    /\ IdleTasks # {}
    /\ Do(g, MusicCog_skip(StartCmd(NewTask, "skip", g), NewTask))

CmdStop(g) ==
    /\ IdleTasks # {}
    /\ Do(g, MusicCog_stop(StartCmd(NewTask, "stop", g), NewTask))

CmdPause(g) ==
    /\ IdleTasks # {}
    /\ Do(g, MusicCog_pause(StartCmd(NewTask, "pause", g), NewTask))

CmdResume(g) ==
    /\ IdleTasks # {}
    /\ Do(g, MusicCog_resume(StartCmd(NewTask, "resume", g), NewTask))

CmdRepeat(g) ==
    /\ IdleTasks # {}
    /\ Do(g, MusicCog_repeat(StartCmd(NewTask, "repeat", g), NewTask))

CmdDisconnect(g) ==
    /\ IdleTasks # {}
    /\ Do(g, MusicCog_disconnect(StartCmd(NewTask, "disconnect", g), NewTask))

StepVoiceConnect(t) ==
    /\ proc[t].pc \in {"v_connect", "v_delay"}
    /\ Do(proc[t].g, VoiceConnect(World, t))

StepVoiceReply(t) ==
    /\ proc[t].pc = "v_reply"
    /\ Do(proc[t].g, VoiceReplied(World, t))

StepVoiceLost(t) ==
    /\ proc[t].pc = "v_lost"
    /\ Do(proc[t].g, VoiceLost(World, t))

\* create_source returns the next new song while the model has songs left
StepResolve(t) ==
    /\ proc[t].pc = "p_resolve"
    /\ \/ /\ hist.nres < NumSongs
          /\ Do(proc[t].g, PlayResolved(World, t, hist.nres + 1, FALSE))
       \/ Do(proc[t].g, PlayResolved(World, t, None, FALSE))
       \/ Do(proc[t].g, PlayResolved(World, t, None, TRUE))

StepAdded(t) ==
    /\ proc[t].pc = "p_added"
    /\ TimerGuard(t)
    /\ \E voice \in Voices : Do(proc[t].g, PlayAdded(World, t, voice))

StepStart(t) ==
    /\ proc[t].pc = "n_start"
    /\ TimerGuard(t)
    /\ \E voice \in Voices : Do(proc[t].g, _play_next(World, t, voice))

StepRegather(t) ==
    /\ proc[t].pc = "n_regather"
    /\ TimerGuard(t)
    /\ \E loaded \in BOOLEAN, voice \in Voices :
          Do(proc[t].g, PlayNextGathered(World, t, loaded, voice))

StepSkipped(t) ==
    /\ proc[t].pc = "n_skip"
    /\ TimerGuard(t)
    /\ \E voice \in Voices : Do(proc[t].g, PlayNextSkipped(World, t, voice))

StepFailed(t) ==
    /\ proc[t].pc = "n_error"
    /\ TimerGuard(t)
    /\ \E voice \in Voices : Do(proc[t].g, PlayNextFailed(World, t, voice))

\* the audio source of a handle runs out, or fails: the player thread will
\* call `after`
SongEnd(h) ==
    /\ vcObj[h].audio = "playing"
    /\ \E error \in BOOLEAN :
          Do(vcObj[h].guild,
             [World EXCEPT !.vc[h].audio = "idle", !.vc[h].after = Append(@, error)])

\* the player thread of a handle calls `after`
AfterSong(h) ==
    /\ vcObj[h].after # <<>>
    /\ IdleTasks # {}
    /\ Do(vcObj[h].guild,
          after_song([World EXCEPT !.vc[h].after = Tail(@)], h, Head(vcObj[h].after),
                     NewTask))

\* One guild, a transport without failures of its own, the users in one voice
\* channel or in none, the commands overlapping.
MusicSteps(t) ==
    \/ StepTransportSound(t)
    \/ StepStable(t)
    \/ StepDisconnect(t)
    \/ StepTimer(t)
    \/ StepVoiceConnect(t)
    \/ StepVoiceReply(t)
    \/ StepResolve(t)
    \/ StepAdded(t)
    \/ StepStart(t)
    \/ StepRegather(t)

\* the same and the steps behind a failure: the retry of a connect and its
\* cleanup after `already connected`, the
\* finally clause of a cancelled timer, the message after player.play raised
FlightSteps(t) ==
    \/ MusicSteps(t)
    \/ StepCleanup(t)
    \/ StepBackoff(t)
    \/ StepAlready(t)
    \/ StepCancelled(t)
    \/ StepFailed(t)

\* Here a connect that has to retry, a timer cancelled inside its disconnect
\* and a failed player.play are not followed further.
NextMusic ==
    \/ CmdPlay(1)
    \/ CmdSkip(1)
    \/ \E t \in Procs : MusicSteps(t)
    \/ \E h \in 1..Len(vcObj) : SongEnd(h) \/ AfterSong(h)

SpecMusic == InitMusic /\ [][NextMusic]_vars

\* The same with MaxFlights commands in all.
NextFlight ==
    \/ hist.ncmd < MaxFlights /\ CmdPlay(1)
    \/ hist.ncmd < MaxFlights /\ CmdSkip(1)
    \/ \E t \in Procs : FlightSteps(t)
    \/ \E h \in 1..Len(vcObj) : SongEnd(h) \/ AfterSong(h)

SpecFlight == InitMusic /\ [][NextFlight]_vars

\* no coroutine is between two awaits
Quiet == \A t \in Procs : proc[t].pc \in {"idle", "done", "t_sleep"}

\* One guild whose users play, pause, resume and disconnect, MaxSession commands
\* in all, each taken up when no coroutine is between two awaits; songs end,
\* the player threads call back and the idle timers expire at any moment.
NextSession ==
    \/ hist.ncmd < MaxSession /\ Quiet /\ CmdPlay(1)
    \/ hist.ncmd < MaxSession /\ Quiet /\ CmdPause(1)
    \/ hist.ncmd < MaxSession /\ Quiet /\ CmdResume(1)
    \/ hist.ncmd < MaxSession /\ Quiet /\ CmdDisconnect(1)
    \/ \E t \in Procs :
          \/ MusicSteps(t)
          \/ StepCleanup(t)
          \/ StepBackoff(t)
          \/ StepCancelled(t)
          \/ StepFailed(t)
    \/ \E h \in 1..Len(vcObj) : SongEnd(h) \/ AfterSong(h)

SpecSession == InitMusic /\ [][NextSession]_vars

\* One guild whose users play, skip and stop, each command taken up when no
\* coroutine is between two awaits, and toggle the repeat mode at any moment,
\* MaxSession commands in all.
NextRepeat ==
    \/ hist.ncmd < MaxSession /\ Quiet /\ CmdPlay(1)
    \/ hist.ncmd < MaxSession /\ Quiet /\ CmdSkip(1)
    \/ hist.ncmd < MaxSession /\ Quiet /\ CmdStop(1)
    \/ hist.ncmd < MaxSession /\ CmdRepeat(1)
    \/ \E t \in Procs :
          \/ MusicSteps(t)
          \/ StepCleanup(t)
          \/ StepBackoff(t)
          \/ StepCancelled(t)
          \/ StepFailed(t)
          \/ StepSkipped(t)
    \/ \E h \in 1..Len(vcObj) : SongEnd(h) \/ AfterSong(h)

SpecRepeat == InitMusic /\ [][NextRepeat]_vars

\* the bot is taken out of the voice channel of a handle from outside (a
\* moderator disconnects it): the connection is gone, the handle's
\* AudioPlayer is stopped by the teardown or left waiting, and the gateway
\* delivers the voice-state update of the bot to on_voice_state_update
VoiceRemoved(h) ==
    /\ vcObj[h].status = "connected"
    /\ \E stops \in BOOLEAN :
          Do(vcObj[h].guild,
             on_voice_state_update(
                 [(IF stops THEN vc_stop(World, h) ELSE World)
                     EXCEPT !.vc[h].status = "removed", !.vc[h].channel = "none"],
                 "bot", vcObj[h].channel, "none"))

\* the bot is dragged into the other voice channel: the handle follows
VoiceMoved(h) ==
    /\ vcObj[h].status = "connected"
    /\ \E after \in Channels \ {vcObj[h].channel} :
          Do(vcObj[h].guild,
             on_voice_state_update([World EXCEPT !.vc[h].channel = after],
                                   "bot", vcObj[h].channel, after))

\* One guild whose users play and pause, each command taken up when no
\* coroutine is between two awaits, MaxSession commands in all, while the bot
\* is dragged between the voice channels and taken out of them from outside.
NextVoiceState ==
    \/ hist.ncmd < MaxSession /\ Quiet /\ CmdPlay(1)
    \/ hist.ncmd < MaxSession /\ Quiet /\ CmdPause(1)
    \/ \E t \in Procs :
          \/ MusicSteps(t)
          \/ StepCleanup(t)
          \/ StepBackoff(t)
          \/ StepCancelled(t)
          \/ StepFailed(t)
    \/ \E h \in 1..Len(vcObj) : SongEnd(h) \/ AfterSong(h)
    \/ \E h \in 1..Len(vcObj) : VoiceRemoved(h)
    \/ \E h \in 1..Len(vcObj) : VoiceMoved(h)

SpecVoiceState == InitMusic /\ [][NextVoiceState]_vars

\* ------------------------------------------------------- skip and progress
\* the skip command, logged: when it is accepted (is_playing) on a connected
\* Player with a song waiting in the queue, the history keeps that song and
\* the Player's handle
CmdSkipLogged(g) ==
    /\ IdleTasks # {}
    /\ LET p == cog.players[g]
           q == cog.queues[g]
           w == MusicCog_skip(StartCmd(NewTask, "skip", g), NewTask)
       IN
       IF /\ p # None
          /\ q # None
          /\ playerObj[p].is_playing
          /\ is_connected(World, p)
          /\ ~is_empty(queueObj[q])
       THEN Do(g, [w EXCEPT !.hist.skipped = Head(queueObj[q]._queue),
                           !.hist.skiph = playerObj[p].voice_client])
       ELSE Do(g, w)

\* regather_stream returns the stream
StepRegatherLoaded(t) ==
    /\ proc[t].pc = "n_regather"
    /\ TimerGuard(t)
    /\ \E voice \in Voices : Do(proc[t].g, PlayNextGathered(World, t, TRUE, voice))

\* the audio source of a handle runs out: the player thread will call `after`
\* with no error
SongOver(h) ==
    /\ vcObj[h].audio = "playing"
    /\ Do(vcObj[h].guild,
          [World EXCEPT !.vc[h].audio = "idle", !.vc[h].after = Append(@, FALSE)])

SkipSteps(t) ==
    \/ StepTransportSound(t)
    \/ StepStable(t)
    \/ StepDisconnect(t)
    \/ StepTimer(t)
    \/ StepVoiceConnect(t)
    \/ StepVoiceReply(t)
    \/ StepResolve(t)
    \/ StepAdded(t)
    \/ StepStart(t)
    \/ StepRegatherLoaded(t)
    \/ StepCleanup(t)
    \/ StepBackoff(t)
    \/ StepCancelled(t)

\* no coroutine is between two awaits and no player thread has a callback
\* to make
Calm == Quiet /\ \A h \in 1..Len(vcObj) : vcObj[h].after = <<>>

\* One guild whose users play, pause, resume and skip, MaxSession commands in
\* all, each taken up when no coroutine is between two awaits and no callback
\* is due.  Nothing fails: the transport is sound, every stream loads and
\* every song plays to its end.
NextSkip ==
    \/ hist.ncmd < MaxSession /\ Calm /\ CmdPlay(1)
    \/ hist.ncmd < MaxSession /\ Calm /\ CmdPause(1)
    \/ hist.ncmd < MaxSession /\ Calm /\ CmdResume(1)
    \/ hist.ncmd < MaxSession /\ Calm /\ CmdSkipLogged(1)
    \/ \E t \in Procs : SkipSteps(t)
    \/ \E h \in 1..Len(vcObj) : SongOver(h)
    \/ \E h \in 1..Len(vcObj) : AfterSong(h)

SpecSkip == InitMusic /\ [][NextSkip]_vars

\* what goes on without the users: the coroutines, the player threads and
\* the sources
Running ==
    \/ \E t \in Procs : SkipSteps(t)
    \/ \E h \in 1..Len(vcObj) : SongOver(h)
    \/ \E h \in 1..Len(vcObj) : AfterSong(h)

\* the same with the scheduling the code runs under: the event loop resumes
\* a coroutine whose await is over and every sleep ends (asyncio), the
\* player thread of an ended source calls `after` and the loop runs the task
\* it submits (music.py:322-331), and a source that plays runs out.  The
\* users owe no command.
FairSkip == SpecSkip /\ WF_vars(Running)

\* -------------------------------------------------- the guilds side by side
\* The same cog serving every guild, the users issuing MaxCmds commands in
\* all, one coroutine at a time: a command, a callback or a timer is taken up
\* when no coroutine is between two awaits.

NextCog ==
    \/ \E g \in Guilds :
          /\ hist.ncmd < MaxCmds
          /\ Quiet
          /\ \/ CmdPlay(g)
             \/ CmdStop(g)
    \/ \E t \in Procs :
          \/ StepTransportSound(t)
          \/ StepStable(t)
          \/ StepDisconnect(t)
          \/ Quiet /\ StepTimer(t)
          \/ StepVoiceConnect(t)
          \/ StepVoiceReply(t)
          \/ StepResolve(t)
          \/ StepAdded(t)
          \/ StepStart(t)
          \/ StepRegather(t)
    \/ \E h \in 1..Len(vcObj) :
          \/ Quiet /\ SongEnd(h)
          \/ Quiet /\ AfterSong(h)

SpecCog == InitMusic /\ [][NextCog]_vars
\* ------------------------------------------------ the video pipeline alone
\* One downloaded file of any size among FileSizes, with any duration and
\* with or without a video stream, handed to _process_video_file and then,
\* as on_message does (media_handler.py:96-97), to _send_video_file; the
\* prober and the encoders answer in every way they can.
InitMedia ==
    /\ queueObj = <<>>
    /\ playerObj = <<>>
    /\ vcObj = <<>>
    /\ proc = [t \in Procs |-> IF t \in CmdTasks THEN IdleProc ELSE DoneTimer]
    /\ cog = NewCog
    /\ config = DefaultConfig
    /\ hist = NoHist
    /\ last = NoOp
    /\ \E T \in TargetSizes, duration \in Durations, has_video \in BOOLEAN :
          \E original \in FileSizes(T) :
             job = [NoJob EXCEPT !.T = T, !.duration = duration,
                                 !.has_video = has_video, !.original = original,
                                 !.files.input = original]

ProbeOutcomes == {"ok", "error", "raise"}
EncodeOutcomes == {"ok", "fail", "raise"}

\* a step of the pipeline from job to j
Step(j) ==
    /\ job' = j
    /\ UNCHANGED <<queueObj, playerObj, vcObj, proc, cog, config, hist, last>>

ProcessVideoFile ==
    /\ job.pc = "idle"
    /\ Step(_process_video_file(job))

\* ffmpeg.probe returns or raises
Probe ==
    \E outcome \in ProbeOutcomes :
       LET j == [job EXCEPT !.nprobe = @ + 1, !.probe = outcome] IN
       \/ job.pc = "c_probe" /\ Step(CompressProbed(j, outcome))
       \/ job.pc = "t_probe" /\ Step(TryProbed(j, outcome))
       \/ job.pc = "a_probe" /\ Step(AggressiveProbed(j, outcome))
       \/ job.pc = "f_probe" /\ Step(FinalProbed(j, outcome))

\* pass 1 of a two-pass encode ends
PassOne ==
    /\ job.pc \in {"t_pass1", "a_pass1"}
    /\ \E outcome \in EncodeOutcomes :
          Step(PassOneDone([job EXCEPT !.rc = outcome], outcome))

\* pass 2 ends: with return code 0 it has written a file or, the encoder
\* being what it is, none; otherwise it may have left a part of one
PassTwo ==
    /\ job.pc \in {"t_pass2", "a_pass2"}
    /\ \E outcome \in EncodeOutcomes, out \in FileSizes(job.T) \cup {None} :
          Step(PassTwoDone([job EXCEPT !.rc = outcome], outcome, out))

\* the encoder of _try_final_compression ends
FinalEncode ==
    /\ job.pc = "f_encode"
    /\ \E outcome \in EncodeOutcomes, out \in FileSizes(job.T) \cup {None} :
          Step(FinalEncoded([job EXCEPT !.rc = outcome], outcome, out))

\* on_message goes on to _send_video_file when a file was returned and exists
SendVideoFile ==
    /\ job.pc = "processed"
    /\ job.ret # "none"
    /\ job.files[job.ret] # None
    /\ Step(_send_video_file(job))

NextMedia ==
    \/ ProcessVideoFile
    \/ Probe
    \/ PassOne
    \/ PassTwo
    \/ FinalEncode
    \/ SendVideoFile

SpecMedia == InitMedia /\ [][NextMedia]_vars

\* the same, every call of the prober and of the encoder returning or raising
\* in the end (the subprocess calls have no timeout: media_handler.py:639-719)
FairMedia == SpecMedia /\ WF_vars(NextMedia)
\* ------------------------------------------------------------------ claims
\* C1: in every reachable state of a Queue, after any sequence of add,
\* get_next, remove, move, shuffle and clear, it holds at most max_size
\* items; and add never evicts: after an add, the items that were queued are
\* all still there, in their places.
C1_SizeWithinCapacity ==
    /\ Len(queueObj[1]._queue) <= queueObj[1].max_size
    /\ last.op = "add" =>
          /\ Len(queueObj[1]._queue) >= Len(last.pre)
          /\ SubSeq(queueObj[1]._queue, 1, Len(last.pre)) = last.pre

\* a full queue has refused an add, and kept what it held
C1_Witness ==
    /\ last.op = "add"
    /\ ~last.retb
    /\ Len(last.pre) = MAX_QUEUE_SIZE
    /\ queueObj[1]._queue = last.pre

\* C2: add on a queue holding max_size items returns False and leaves size
\* and contents as they were; add on a queue holding fewer returns True,
\* appends the item at the tail and grows the size by exactly 1.
C2_AddContract ==
    last.op = "add" =>
        IF Len(last.pre) = queueObj[1].max_size
        THEN ~last.retb /\ queueObj[1]._queue = last.pre
        ELSE /\ last.retb
             /\ queueObj[1]._queue = Append(last.pre, last.arg[1])
             /\ Len(queueObj[1]._queue) = Len(last.pre) + 1

\* an add that was accepted filled the last free place
C2_Witness ==
    /\ last.op = "add"
    /\ last.retb
    /\ Len(last.pre) = MAX_QUEUE_SIZE - 1
    /\ Len(queueObj[1]._queue) = MAX_QUEUE_SIZE

\* C3: within one guild, while the queue has not been cleared or reordered,
\* the songs start in the order they were added: no song starts before one
\* that was added earlier, whether that one has started already or is still
\* held by a _play_next that took it from the head of the queue.
C3_FifoDispatch ==
    ~hist.reordered =>
        /\ \A i, j \in 1..Len(hist.started) : i < j => hist.started[i] < hist.started[j]
        /\ \A t \in CmdTasks : \A i \in 1..Len(hist.started) :
              proc[t].song # None => hist.started[i] <= proc[t].song

\* the Player and the Queue of guild g as the cog holds them, the handle of
\* the Player included
GuildState(g) ==
    LET p == cog.players[g]
        q == cog.queues[g]
    IN [player |-> IF p = None THEN <<>> ELSE <<playerObj[p]>>,
        handle |-> IF p = None \/ playerObj[p].voice_client = None THEN <<>>
                   ELSE <<vcObj[playerObj[p].voice_client]>>,
        queue |-> IF q = None THEN <<>> ELSE <<queueObj[q]._queue>>]

\* the instances constructed for guild g
MadeFor(made, g) == { i \in 1..Len(made) : made[i] = g }

C5_SingleFlight ==
    /\ \A g \in Guilds :
          /\ Cardinality(MadeFor(hist.madeP, g)) <= 1
          /\ Cardinality(MadeFor(hist.madeQ, g)) <= 1
    /\ \A t1, t2 \in CmdTasks :
          proc[t1].pc # "idle" /\ proc[t2].pc # "idle" /\ proc[t1].g = proc[t2].g =>
              /\ proc[t1].p # 0 /\ proc[t2].p # 0 => proc[t1].p = proc[t2].p
              /\ proc[t1].q # 0 /\ proc[t2].q # 0 => proc[t1].q = proc[t2].q

\* two commands of one guild are in progress at once, each holding the
\* guild's Player and Queue
C5_Witness ==
    \E t1, t2 \in CmdTasks :
        /\ t1 # t2
        /\ proc[t1].g = proc[t2].g
        /\ proc[t1].pc = "p_resolve" /\ proc[t2].pc = "n_regather"
        /\ proc[t1].p # 0 /\ proc[t1].q # 0 /\ proc[t2].p # 0 /\ proc[t2].q # 0

\* C6: a step taken for one guild (of a command, of connect or disconnect, of
\* a callback, of an idle timer, of the transport) leaves the Player, its
\* handle and the Queue of every other guild as they were.
C6_GuildIsolation ==
    [][\A g \in Guilds : g # hist'.g => GuildState(g)' = GuildState(g)]_vars

\* a step has been taken for guild 1, whose Player is connected, while guild
\* 2 has a song playing and another one queued
C6_Witness ==
    /\ hist.g = 1
    /\ cog.players[1] # None /\ cog.players[2] # None /\ cog.queues[2] # None
    /\ is_connected(World, cog.players[1])
    /\ is_connected(World, cog.players[2])
    /\ playerObj[cog.players[2]].is_playing
    /\ queueObj[cog.queues[2]]._queue # <<>>

\* C7: in every reachable state each guild has at most one
\* live transport connection, and every handle that was acquired and that
\* the session no longer holds (it was replaced or dropped) has been
\* force-disconnected.
C7_OneLiveForceDisconnected ==
    /\ \A h1, h2 \in 1..Len(vcObj) :
          (/\ vcObj[h1].guild = vcObj[h2].guild
           /\ vcObj[h1].status = "connected"
           /\ vcObj[h2].status = "connected") => h1 = h2
    /\ \A h \in 1..Len(vcObj) :
          (\A p \in 1..Len(playerObj) : playerObj[p].voice_client # h)
              => vcObj[h].status = "closed"

\* C8: a call of Player.connect makes at most VOICE_RECONNECT_ATTEMPTS
\* transport connect attempts, whatever the transport does, and a call that
\* is still in progress has an attempt left: with the last one failed it has
\* returned.
C8_AttemptsBounded ==
    \A t \in CmdTasks :
        /\ proc[t].nconn <= VOICE_RECONNECT_ATTEMPTS
        /\ proc[t].pc \in {"c_cleanup", "c_backoff", "c_conn", "c_stable", "c_session",
                            "c_already"}
              => proc[t].attempt < VOICE_RECONNECT_ATTEMPTS

\* connect has returned False with every attempt used
C8_Witness ==
    /\ proc[1].pc = "idle"
    /\ proc[1].fn = "connect"
    /\ ~proc[1].ret
    /\ proc[1].nconn = VOICE_RECONNECT_ATTEMPTS

\* C9: no call of Player.connect or Player.ensure_connection ends with an
\* exception: what the transport raises during connect, move and teardown is
\* caught, and the call returns a boolean.
C9_NeverRaises ==
    \A t \in CmdTasks :
        proc[t].fn \in {"connect", "ensure_connection"} =>
            /\ ~proc[t].raised
            /\ proc[t].ret \in BOOLEAN

\* ensure_connection caught an error of the transport and returned True
C9_Witness ==
    /\ proc[1].pc = "idle"
    /\ proc[1].fn = "ensure_connection"
    /\ proc[1].caught
    /\ proc[1].ret
    /\ ~proc[1].raised

\* C10: when Player.connect has returned True, the handle of its last attempt
\* reported connected right after channel.connect returned it and again
\* after the 1 s stabilisation sleep.
C10_SuccessIsStable ==
    \A t \in CmdTasks :
        (/\ proc[t].pc = "idle"
         /\ proc[t].fn \in {"connect", "ensure_connection"}
         /\ proc[t].nconn > 0
         /\ proc[t].ret) => (proc[t].chk1 /\ proc[t].chk2)

\* connect has returned True on its second attempt
C10_Witness ==
    /\ proc[1].pc = "idle"
    /\ proc[1].fn = "connect"
    /\ proc[1].ret
    /\ proc[1].nconn = 2
    /\ proc[1].chk1 /\ proc[1].chk2

\* C11: when Player.connect has returned False, with its attempts used up or
\* after the fatal abort, the Player is disconnected and holds no handle:
\* is_connected is false and voice_client is None, also when the last attempt
\* produced a handle that failed the stability check.
C11_FailureReleasesHandle ==
    \A t \in CmdTasks :
        (/\ proc[t].pc = "idle"
         /\ proc[t].fn = "connect"
         /\ proc[t].nconn > 0
         /\ ~proc[t].ret)
            => /\ ~is_connected(World, proc[t].p)
               /\ playerObj[proc[t].p].voice_client = None

\* C12: in Player.connect no backoff wait precedes the first attempt, and the
\* backoff wait before the attempt of 0-based index k >= 1 is
\* min(VOICE_RETRY_DELAY * 1.5^(k-1), 20) seconds: it is the base delay (or the
\* ceiling) for k = 1, 1.5 times the wait before it from then on unless the
\* ceiling cuts it, never shorter than the wait before it and never above
\* 20 s.
C12_BackoffSchedule ==
    \A t \in CmdTasks :
        LET k == proc[t].attempt
            s == Second(World)
        IN
        /\ (proc[t].pc \in {"c_cleanup", "c_backoff", "c_conn", "c_stable", "c_session"}
               /\ k = 0) => proc[t].nback = 0 /\ proc[t].pc # "c_backoff"
        /\ proc[t].pc = "c_conn" => proc[t].nback = k
        /\ proc[t].pc = "c_backoff" =>
              /\ proc[t].delay * Pow(2, k - 1)
                    = Min(config.VOICE_RETRY_DELAY * Pow(3, k - 1) * s, 20 * s * Pow(2, k - 1))
              /\ k = 1 => proc[t].delay = Min(config.VOICE_RETRY_DELAY, 20) * s
              /\ k >= 2 => 2 * proc[t].delay = Min(3 * proc[t].pdelay, 40 * s)
              /\ proc[t].pdelay <= proc[t].delay
              /\ proc[t].delay <= 20 * s

\* a backoff wait is cut to the ceiling of 20 s, the one before it was shorter
C12_Witness ==
    /\ proc[1].pc = "c_backoff"
    /\ proc[1].attempt >= 2
    /\ proc[1].delay = 20 * Second(World)
    /\ 0 < proc[1].pdelay /\ proc[1].pdelay < proc[1].delay

\* C13 as stated: with max_retries = 5, channel.connect failing with close code
\* 4006 on attempts 1 and 2 and succeeding on attempt 3, connect returns True,
\* and between the failure of attempt 2 and the start of attempt 3 the call
\* waits the 12 s of the session delay, not the standard backoff.
C13_SessionBackoffOnly ==
    \A t \in CmdTasks :
        config.VOICE_RECONNECT_ATTEMPTS = 5 =>
            /\ (proc[t].pc = "c_conn" /\ hist.outs = <<"closed4006", "closed4006">>)
                  => proc[t].slept = 12 * Second(World)
            /\ (proc[t].pc = "idle" /\ proc[t].fn = "connect"
                   /\ hist.outs = <<"closed4006", "closed4006", "ok">>) => proc[t].ret

\* C13 amended: in that scenario connect returns True, and between the
\* failure of attempt 2 and the start of attempt 3 the call waits the 12 s of
\* the session delay and then the standard backoff of attempt 3,
\* min(VOICE_RETRY_DELAY * 1.5, 20) s: 12 s more than the standard backoff.
C13_SessionThenBackoff ==
    \A t \in CmdTasks :
        config.VOICE_RECONNECT_ATTEMPTS = 5 =>
            /\ (proc[t].pc = "c_conn" /\ hist.outs = <<"closed4006", "closed4006">>)
                  => /\ 2 * (proc[t].slept - 12 * Second(World))
                          = Min(3 * config.VOICE_RETRY_DELAY * Second(World),
                                40 * Second(World))
                     /\ proc[t].slept = proc[t].delay + 12 * Second(World)
            /\ (proc[t].pc = "idle" /\ proc[t].fn = "connect"
                   /\ hist.outs = <<"closed4006", "closed4006", "ok">>) => proc[t].ret

\* connect has returned True on its third attempt after two 4006 failures,
\* with five attempts allowed
C13_Witness ==
    /\ config.VOICE_RECONNECT_ATTEMPTS = 5
    /\ proc[1].pc = "idle" /\ proc[1].fn = "connect" /\ proc[1].ret
    /\ hist.outs = <<"closed4006", "closed4006", "ok">>
    /\ proc[1].nback = 2

\* C14: once channel.connect has raised the opus ClientException, connect has
\* returned False at once: that attempt is the call's last transport connect,
\* and no wait follows it, whatever number of attempts remains.
C14_OpusAborts ==
    \A i \in 1..Len(hist.outs) :
        hist.outs[i] = "opus" =>
            /\ i = Len(hist.outs)
            /\ proc[1].pc = "idle" /\ proc[1].fn = "connect" /\ ~proc[1].ret
            /\ proc[1].nconn = i
            /\ proc[1].nback = i - 1
            /\ proc[1].slept = 0

\* the opus error ended a call on its second attempt, with attempts left
C14_Witness ==
    /\ Len(hist.outs) = 2 /\ hist.outs[2] = "opus"
    /\ config.VOICE_RECONNECT_ATTEMPTS > 2
    /\ proc[1].pc = "idle" /\ ~proc[1].ret

\* C15: a call of Player.ensure_connection(channel) that has gone through
\* connect returns what connect returned (True exactly when the last handle
\* passed the stability check); and at the moment any call returns True, the
\* Player holds a handle that reports connected and is bound to the channel
\* asked for.
C15_EnsureMeansConnected ==
    [][\A t \in CmdTasks :
          (/\ proc'[t].nret # proc[t].nret
           /\ proc'[t].fn = "ensure_connection"
           /\ ~proc'[t].raised)
              => /\ proc'[t].nconn > 0 => (proc'[t].ret <=> proc'[t].chk2)
                 /\ proc'[t].ret =>
                       /\ playerObj'[proc'[t].p].voice_client # None
                       /\ vcObj'[playerObj'[proc'[t].p].voice_client].status = "connected"
                       /\ vcObj'[playerObj'[proc'[t].p].voice_client].channel
                             = proc'[t].channel]_vars

\* the Player p has no idle timer pending: _disconnect_timer is None or a
\* task that is done
NoTimerPending(p) ==
    \/ playerObj[p]._disconnect_timer = None
    \/ proc[playerObj[p]._disconnect_timer].pc = "done"

\* the Player p is disconnected: no handle, nothing playing or paused, no
\* current song, no idle timer pending
Disconnected(p) ==
    /\ playerObj[p].voice_client = None
    /\ ~playerObj[p].is_playing /\ ~playerObj[p].is_paused
    /\ playerObj[p].current_song = None
    /\ NoTimerPending(p)

\* C16: a call of Player.disconnect on a Player that is disconnected, however
\* many came before it, returns at once without an exception, makes no call
\* on the transport and leaves the Player, its timers and every handle as
\* they were.
C16_DisconnectIdempotent ==
    [][\A t \in CmdTasks :
          (/\ proc[t].pc = "idle"
           /\ proc'[t].fn = "disconnect"
           /\ proc'[t].pc # "idle" \/ proc'[t].nret # proc[t].nret
           /\ Disconnected(proc'[t].p))
              => /\ proc'[t].pc = "idle" /\ ~proc'[t].raised
                 /\ playerObj' = playerObj
                 /\ vcObj' = vcObj
                 /\ \A tm \in TimerTasks : proc'[tm] = proc[tm]]_vars

\* disconnect has returned, a second call at least, on a Player that never
\* had a handle
C16_Witness ==
    /\ proc[1].pc = "idle" /\ proc[1].fn = "disconnect" /\ proc[1].nret = 0
    /\ ~proc[1].raised
    /\ vcObj = <<>>
    /\ playerObj[1] = NewPlayer

\* C17: when a call of Player.disconnect that had a handle to tear down
\* returns, whether the teardown raised or not and whatever was playing,
\* paused or armed when it was called, the handle it held is closed with no
\* audio on it, voice_client and current_song are None, is_playing and
\* is_paused are False, and no idle timer is pending.
C17_DisconnectClears ==
    [][\A t \in Procs : \A p \in 1..Len(playerObj) : \A h \in 1..Len(vcObj) :
          (/\ proc[t].pc \in {"d_await", "d_settle"}
           /\ proc'[t].pc \notin {"d_await", "d_settle", "d_cancelled"}
           /\ proc[t].p = p /\ proc[t].h = h)
              => /\ playerObj'[p].voice_client = None
                 /\ playerObj'[p].current_song = None
                 /\ ~playerObj'[p].is_playing
                 /\ ~playerObj'[p].is_paused
                 /\ NoTimerPending(p)'
                 /\ vcObj'[h].status = "closed"
                 /\ vcObj'[h].audio = "idle"]_vars

\* the disconnect command has run to its end on a Player that had started a
\* song: its handle is closed, the Player holds none
C17_Witness ==
    /\ hist.reordered
    /\ Len(hist.started) >= 1
    /\ Quiet
    /\ cog.players[1] # None
    /\ Disconnected(cog.players[1])
    /\ \E h \in 1..Len(vcObj) : vcObj[h].status = "closed" /\ vcObj[h].audio = "idle"

\* C18: of the idle timers of a Player at most one is asleep (armed and not
\* yet expired), and it is the one _disconnect_timer refers to: a timer that
\* start_disconnect_timer has replaced was cancelled and cannot expire.
C18_OneTimer ==
    \A p \in 1..Len(playerObj) :
        LET asleep == { tm \in TimerTasks : proc[tm].p = p /\ proc[tm].pc = "t_sleep" }
        IN /\ Cardinality(asleep) <= 1
           /\ \A tm \in asleep : playerObj[p]._disconnect_timer = tm

\* a timer has been replaced: it was cancelled asleep, the new one is armed
C18_Witness ==
    \E tm1, tm2 \in TimerTasks :
        /\ tm1 # tm2
        /\ proc[tm1].pc = "done" /\ proc[tm1].p = 1
        /\ proc[tm2].pc = "t_sleep" /\ proc[tm2].p = 1
        /\ playerObj[1]._disconnect_timer = tm2

\* C19: an idle timer that expires while is_playing is true ends without a
\* change to the Player or to any handle; and an idle timer enters
\* disconnect only if is_playing is false when it expires.
C19_TimerSparesPlayback ==
    [][\A tm \in TimerTasks :
          /\ (proc[tm].pc = "t_sleep" /\ proc'[tm].pc \in {"d_await", "d_settle"})
                => ~playerObj[proc[tm].p].is_playing
          /\ (proc[tm].pc = "t_sleep" /\ playerObj[proc[tm].p].is_playing
                 /\ proc'[tm] = DoneTimer)
                => playerObj' = playerObj /\ vcObj' = vcObj]_vars

\* an idle timer has expired during a song and has left it playing: the
\* Player still refers to the timer, which is done
C19_Witness ==
    /\ cog.players[1] # None
    /\ playerObj[cog.players[1]]._disconnect_timer # None
    /\ proc[playerObj[cog.players[1]]._disconnect_timer] = DoneTimer
    /\ playerObj[cog.players[1]].is_playing
    /\ is_connected(World, cog.players[1])
    /\ vcObj[playerObj[cog.players[1]].voice_client].audio = "playing"

\* C20: when Player.play starts a song or Player.resume resumes one (the
\* audio of the Player's handle goes from idle or paused to playing), no
\* idle timer of the Player is pending afterwards.
C20_PlaybackCancelsTimer ==
    [][\A p \in 1..Len(playerObj) :
          LET h == playerObj[p].voice_client IN
          (/\ h # None
           /\ vcObj[h].audio # "playing"
           /\ vcObj'[h].audio = "playing")
              => NoTimerPending(p)']_vars

\* C21: when a call of Player.connect returns, True or False, no idle timer
\* of the Player is pending: one armed before the call has been cancelled and
\* cannot expire later.
C21_ConnectCancelsTimer ==
    [][\A t \in CmdTasks : \A p \in 1..Len(playerObj) :
          (/\ proc'[t].nret # proc[t].nret
           /\ proc'[t].fn = "connect"
           /\ proc'[t].p = p)
              => NoTimerPending(p)']_vars

\* C22: when a song has ended with the queue empty and the Player holds its
\* connection, an idle timer is pending afterwards: after the callback
\* after_song(error) of a playback error has run, and after the _play_next
\* that after_song schedules for a song that ended without one has run.
C22_IdleArmsTimer ==
    [][/\ \A h \in 1..Len(vcObj) :
             LET p == vcObj[h].owner
                 g == vcObj[h].guild
             IN (/\ vcObj[h].after # <<>>
                 /\ vcObj'[h].after = Tail(vcObj[h].after)
                 /\ Head(vcObj[h].after)
                 /\ cog.queues[g] # None
                 /\ is_empty(queueObj[cog.queues[g]])
                 /\ playerObj'[p].voice_client = h
                 /\ vcObj'[h].status = "connected")
                    => ~NoTimerPending(p)'
       /\ \A t \in CmdTasks : \A p \in 1..Len(playerObj) :
             (/\ proc[t].pc = "n_start" /\ proc[t].fn = "_play_next"
              /\ proc'[t] # proc[t]
              /\ cog.players[proc[t].g] = p
              /\ cog.queues[proc[t].g] # None
              /\ is_empty(queueObj[cog.queues[proc[t].g]])
              /\ ~(playerObj[p].repeat_mode /\ playerObj[p].current_song # None)
              /\ playerObj'[p].voice_client # None)
                 => ~NoTimerPending(p)']_vars

\* C23: the disconnect of an expired idle timer is atomic with respect to the
\* commands: the step that ends it (its finally clause and what follows)
\* releases no connected handle that a command in progress has found
\* connected (the command is past its connection check, at a later await),
\* and clears no playback: a song playing at that moment is one a command
\* has started since the timer fired.
C23_TimerDisconnectAtomic ==
    [][\A tm \in TimerTasks : \A p \in 1..Len(playerObj) :
          (/\ proc[tm].pc \in {"d_await", "d_settle", "d_cancelled"}
           /\ proc[tm].p = p
           /\ proc'[tm].pc = "done")
              => /\ (/\ playerObj[p].voice_client # None
                     /\ vcObj[playerObj[p].voice_client].status = "connected"
                     /\ \E t \in CmdTasks :
                           /\ proc[t].pc \in {"v_reply", "p_resolve", "p_added", "n_regather"}
                           /\ proc[t].p = p)
                       => playerObj'[p].voice_client = playerObj[p].voice_client
                 /\ playerObj[p].is_playing => playerObj'[p].is_playing
                 /\ playerObj[p].current_song # None
                       => playerObj'[p].current_song = playerObj[p].current_song]_vars

\* C24: of the coroutines of a guild at most one is inside _play_next
\* (between its awaits: regather_stream, the messages, the reconnect it
\* asks for), whether the play command, after_song or _play_next itself
\* called it: no two hold a dequeued song at once.
C24_OnePlayNext ==
    \A g \in Guilds :
        LET inside == { t \in CmdTasks :
                          /\ proc[t].g = g
                          /\ \/ proc[t].pc \in {"n_regather", "n_skip", "n_error"}
                             \/ \E i \in 1..Len(proc[t].stack) :
                                   proc[t].stack[i] = "n_ensured" }
        IN Cardinality(inside) <= 1

\* C25: the video bitrate planned for every encoder run started is
\* max(floor, floor(target size * 8 * overhead factor / duration) - audio
\* bitrate), with the target size, overhead factor, audio bitrate and floor of
\* the function that started it; so it is never below that floor.
C25_PlannedBitrate ==
    \A i \in 1..Len(job.encodes) :
        LET e == job.encodes[i]
            p == CASE e.fn = "_try_compression" ->
                        [size |-> job.T, num |-> 19, den |-> 20, audio |-> 48000,
                         floor |-> IF CodecPairs[e.k].vcodec = "libx265"
                                   THEN 80000 ELSE 150000]
                   [] e.fn = "_try_aggressive_compression" ->
                        [size |-> 5 * 1024 * 1024, num |-> 9, den |-> 10, audio |-> 32000,
                         floor |-> IF job.base < 200000 THEN 60000 ELSE 100000]
                   [] e.fn = "_final_aggressive_compression" ->
                        [size |-> 6 * 1024 * 1024, num |-> 17, den |-> 20, audio |-> 24000,
                         floor |-> 80000]
        IN /\ e.video_bitrate
                 = Max(p.floor, (p.size * 8 * p.num) \div (p.den * job.duration) - p.audio)
           /\ e.video_bitrate >= p.floor

\* C26: the video bitrate planned for an encoder run does not fall when the
\* target size grows and does not rise when the duration grows, the codec
\* (hence the floor), the audio bitrate and the overhead factor being the same:
\* compared with what the same function plans for any other target size or
\* duration.
C26_PlanMonotone ==
    \A i \in 1..Len(job.encodes) :
        LET e == job.encodes[i] IN
        /\ e.fn = "_try_compression" =>
              /\ \A T \in TargetSizes :
                    T >= job.T =>
                       try_compression_bitrate(T, job.duration, CodecPairs[e.k].vcodec)
                          >= e.video_bitrate
              /\ \A d \in Durations :
                    d >= job.duration =>
                       try_compression_bitrate(job.T, d, CodecPairs[e.k].vcodec)
                          <= e.video_bitrate
        /\ e.fn = "_try_aggressive_compression" =>
              \A d \in Durations :
                 d >= job.duration => aggressive_bitrate(d, job.base) <= e.video_bitrate
        /\ e.fn = "_final_aggressive_compression" =>
              \A d \in Durations :
                 d >= job.duration => final_bitrate(d) <= e.video_bitrate

\* _try_compression has planned a bitrate over its floor for the smaller
\* target: a larger target gives more, a longer duration less
C26_Witness ==
    /\ Len(job.encodes) >= 1
    /\ job.encodes[1].fn = "_try_compression"
    /\ job.encodes[1].video_bitrate > 80000
    /\ \E T \in TargetSizes :
          try_compression_bitrate(T, job.duration, "libx265") > job.encodes[1].video_bitrate
    /\ \E d \in Durations :
          /\ d > job.duration
          /\ try_compression_bitrate(job.T, d, "libx265") < job.encodes[1].video_bitrate
          /\ try_compression_bitrate(job.T, d, "libx265") > 80000

\* C27: a prober call that fails (ffmpeg.Error or any other exception), or
\* one made for a file without a video stream or a positive duration, ends
\* the job in that step: _process_video_file returns the original path, the
\* file is still there, and the step plans no bitrate and starts no encoder
\* run.
C27_ProbeFailureFatal ==
    [][(/\ job.pc \in {"c_probe", "t_probe", "a_probe"}
        /\ job' # job
        /\ (job'.probe # "ok" \/ ~job.has_video \/ job.duration <= 0))
          => /\ job'.pc = "processed"
             /\ job'.ret = "input"
             /\ job'.files.input = job.original
             /\ job'.encodes = job.encodes
             /\ job'.video_bitrate = job.video_bitrate]_vars

\* The part of C27 that holds: it is so for the prober call of
\* _compress_video, the first of the job, after which nothing has been
\* planned or encoded at all; a failing prober call of one _try_compression
\* ends that attempt only, without a bitrate or an encoder run of its own.
C27_FirstProbeFailsFast ==
    [][/\ (/\ job.pc = "c_probe"
            /\ job' # job
            /\ (job'.probe # "ok" \/ ~job.has_video \/ job.duration <= 0))
              => /\ job'.pc = "processed"
                 /\ job'.ret = "input"
                 /\ job'.files = job.files
                 /\ job'.files.input = job.original
                 /\ job'.encodes = <<>>
                 /\ job'.base = 0 /\ job'.video_bitrate = 0
                 /\ job'.nprobe = 1
       /\ (/\ job.pc = "t_probe"
            /\ job' # job
            /\ job'.probe # "ok")
              => /\ job'.encodes = job.encodes
                 /\ job'.video_bitrate = job.video_bitrate
                 /\ job'.files.input = job.original]_vars

\* C28: when the file is there and its size is at most target_file_size,
\* _process_video_file returns the path it was given and does nothing else:
\* no prober call, no encoder run, no file created or removed.
C28_NoOpFastPath ==
    [][(/\ job.pc = "idle"
        /\ job.files.input # None
        /\ job.files.input <= job.T
        /\ job' # job)
          => /\ job' = [job EXCEPT !.pc = "processed", !.ret = "input"]
             /\ job'.files = job.files
             /\ job'.nprobe = 0
             /\ job'.encodes = <<>>]_vars

\* _process_video_file has returned a file of exactly the target size
C28_Witness ==
    /\ job.pc = "processed" /\ job.ret = "input"
    /\ job.original = job.T
    /\ job.files.input = job.original
    /\ job.nprobe = 0 /\ job.encodes = <<>>

\* C29: when pass 2 of an encode of _try_compression ends with return code 0
\* and an output file of at most 1.05 times target_file_size,
\* _process_video_file returns that file: no more aggressive encode is
\* started after it.
C29_ToleranceIsSuccess ==
    [][(/\ job.pc = "t_pass2"
        /\ job' # job
        /\ job'.rc = "ok"
        /\ job'.files.compressed # None
        /\ job'.files.compressed * 20 <= job.T * 21)
          => /\ job'.pc = "processed"
             /\ job'.ret = "compressed"
             /\ job'.encodes = job.encodes]_vars

\* The part of C29 that holds: such a file is a success of _try_compression,
\* no other codec pair is tried after it; and when it is at most
\* target_file_size it is returned and the original removed.
C29_NoOtherCodecPair ==
    [][(/\ job.pc = "t_pass2"
        /\ job' # job
        /\ job'.rc = "ok"
        /\ job'.files.compressed # None
        /\ job'.files.compressed * 20 <= job.T * 21)
          => /\ job'.pc \in {"processed", "a_probe"}
             /\ job'.encodes = job.encodes
             /\ job'.files.compressed <= job.T
                   => /\ job'.pc = "processed"
                      /\ job'.ret = "compressed"
                      /\ job'.files.input = None]_vars

\* C30: the file _process_video_file returns, and the file _send_video_file
\* uploads after _final_aggressive_compression, is never larger than the
\* downloaded original; and when _try_aggressive_compression ends without a
\* file under the target while the first compression had left one smaller
\* than the original, the original is not what is returned.
C30_NeverLargerThanInput ==
    /\ []((job.pc = "processed" /\ job.ret # "none" /\ job.files[job.ret] # None)
              => job.files[job.ret] <= job.original)
    /\ [](job.pc = "sent" => job.sent <= job.original)
    /\ [][(/\ job.pc \in {"a_pass1", "a_pass2"}
            /\ job'.pc = "processed"
            /\ job.files.compressed # None
            /\ job.files.compressed < job.original)
              => job'.ret # "input"]_vars

\* The part of C30 that holds: what _process_video_file returns is the
\* original or an encoded file of at most target_file_size, which is less
\* than the original.
C30_ProcessedNoLarger ==
    (job.pc = "processed" /\ job.ret # "none" /\ job.files[job.ret] # None)
        => \/ job.ret = "input" /\ job.files.input = job.original
           \/ /\ job.ret \in {"compressed", "aggressive"}
              /\ job.files[job.ret] <= job.T
              /\ job.files[job.ret] < job.original

\* C31: _process_video_file on a file over the target, with a video stream
\* and a duration, ends after at most five encoder runs; and when an encode
\* of _try_compression has completed with a file smaller than the original,
\* the file returned is at most 1.05 times target_file_size or smaller than
\* the original.
C31_BoundedAndSmaller ==
    (/\ job.pc = "processed"
     /\ job.original > job.T
     /\ job.has_video /\ job.duration > 0
     /\ job.ret # "none")
       => /\ Len(job.encodes) <= 5
          /\ (/\ job.rc = "ok"
              /\ job.files.compressed # None
              /\ job.files.compressed < job.original)
                => \/ job.files[job.ret] * 20 <= job.T * 21
                   \/ job.files[job.ret] < job.original

\* The part of C31 that holds: the encoder is started at most three times by
\* _try_compression and twice by _try_aggressive_compression, after at most
\* five prober calls.
C31_BoundedAttempts ==
    job.pc \notin {"f_probe", "f_encode", "sent"}
       => /\ Len(job.encodes) <= 5
          /\ job.nprobe <= 5
          /\ \A i \in 1..Len(job.encodes) :
                /\ job.encodes[i].fn = "_try_compression" => i <= 3
                /\ job.encodes[i].fn # "_final_aggressive_compression"

\* and with every prober call and every encoder run ending,
\* _process_video_file returns
C31_Terminates == <>(job.pc \in {"processed", "sent"})

\* C32: when _process_video_file has returned, no output file of an encode
\* is left on disk other than the file returned.
C32_NoArtifactLeft ==
    job.pc = "processed"
       => \A f \in {"compressed", "aggressive"} :
             f # job.ret => job.files[f] = None

\* The part of C32 that holds: an output of _try_aggressive_compression that
\* a successful encode left over the target is removed, and no pass-log
\* file is left.
C32_AggressiveRemoved ==
    job.pc = "processed"
       => /\ ~job.passlog
          /\ (job.files.aggressive # None /\ job.rc = "ok")
                => job.ret = "aggressive"

\* C33: for a file that exists, _process_video_file returns a path, whatever
\* the prober and the encoders do (fail, raise, write nothing), and the file
\* at that path exists at that moment; the original is either still there,
\* untouched, or the file returned is an encoded one.
C33_GracefulReturn ==
    job.pc = "processed"
       => /\ job.ret \in {"input", "compressed", "aggressive"}
          /\ job.files[job.ret] # None
          /\ \/ job.files.input = job.original
             \/ job.files.input = None /\ job.ret \in {"compressed", "aggressive"}

\* everything has failed: two codec pairs, then both scaled encodes after a
\* third pair's result over the target, the last one by an exception; the
\* original is returned
C33_Witness ==
    /\ job.pc = "processed"
    /\ job.ret = "input"
    /\ job.files.input = job.original
    /\ Len(job.encodes) = 5
    /\ job.rc = "raise"

\* C34: _compress_video gives the codec pairs to _try_compression in the
\* order libx265+libopus, libx264+libopus, libx264+aac; an encode that ends
\* with a nonzero return code, or without an output file, is followed by the
\* next pair (or, after the last, by the return of the original); and an
\* encode that ends with return code 0 and an output file is followed by no
\* other pair.
C34_CodecFallback ==
    /\ [](\A i, n \in 1..Len(job.encodes) :
             (i < n /\ job.encodes[n].fn = "_try_compression")
                => /\ job.encodes[i].fn = "_try_compression"
                   /\ job.encodes[i].k < job.encodes[n].k)
    /\ [][(/\ job.pc = "t_pass2"
           /\ job' # job
           /\ (job'.rc = "fail" \/ job'.files.compressed = None))
             => \/ job.k < Len(CodecPairs) /\ job'.pc = "t_probe" /\ job'.k = job.k + 1
                \/ /\ job.k = Len(CodecPairs)
                   /\ job'.pc = "processed" /\ job'.ret = "input"
                   /\ job'.files.input = job.original]_vars
    /\ [][(/\ job.pc = "t_pass2"
           /\ job' # job
           /\ job'.rc = "ok"
           /\ job'.files.compressed # None)
             => job'.pc # "t_probe"]_vars

\* The part of C34 that holds: the order of the pairs, the next pair after a
\* nonzero return code or a missing output, and no other pair after an
\* encode that ended with return code 0 and an output file of at most 1.05
\* times target_file_size.
C34_FallbackWithinTolerance ==
    /\ [](\A i, n \in 1..Len(job.encodes) :
             (i < n /\ job.encodes[n].fn = "_try_compression")
                => /\ job.encodes[i].fn = "_try_compression"
                   /\ job.encodes[i].k < job.encodes[n].k)
    /\ [][(/\ job.pc = "t_pass2"
           /\ job' # job
           /\ (job'.rc = "fail" \/ job'.files.compressed = None))
             => \/ job.k < Len(CodecPairs) /\ job'.pc = "t_probe" /\ job'.k = job.k + 1
                \/ /\ job.k = Len(CodecPairs)
                   /\ job'.pc = "processed" /\ job'.ret = "input"
                   /\ job'.files.input = job.original]_vars
    /\ [][(/\ job.pc = "t_pass2"
           /\ job' # job
           /\ job'.rc = "ok"
           /\ job'.files.compressed # None
           /\ job'.files.compressed * 20 <= job.T * 21)
             => job'.pc # "t_probe"]_vars

\* C35: pass-log files exist only while a two-pass encode is between its
\* pass 1 and the end of its pass 2: whenever an encode has returned, after
\* a failed or raising pass 1, a failed or raising pass 2, or both passes
\* succeeding, they are removed; and pass 2 runs only after a pass 1 that
\* ended with return code 0.
C35_PasslogReleased ==
    /\ job.passlog => job.pc \in {"t_pass2", "a_pass2"}
    /\ job.pc \in {"t_pass2", "a_pass2"} => job.rc = "ok"

\* a pass 2 has failed after writing a part of its output, the encode has
\* returned and _process_video_file too
C35_Witness ==
    /\ job.pc = "processed"
    /\ job.rc = "fail"
    /\ job.files.compressed # None
    /\ ~job.passlog

\* C36: when move_to raises inside Player.ensure_connection, whatever the
\* exception, the step that catches it is the call of
\* Player.disconnect(force_cleanup=True), which is either awaiting the
\* transport's teardown, with the wait (code 4006) or the connect to follow,
\* or has run to its end on a Player without a handle; connect is not
\* entered before.
C36_MoveFailureTeardown ==
    [][\A t \in Procs :
          (proc[t].pc = "e_move" /\ proc'[t].caught)
             => \/ /\ proc'[t].pc = "d_await"
                   /\ proc'[t].fc
                   /\ Head(proc'[t].stack) \in {"e_sleep_connect", "e_connect"}
                \/ /\ playerObj[proc[t].p].voice_client = None
                   /\ proc'[t].pc \in {"e_wait", "c_conn"}]_vars

\* The part of C36 that holds: the wait of the 4006 branch begins only when
\* disconnect has ended and the Player has no handle, and it is followed by
\* connect, whose first attempt goes to the transport without a backoff.
C36_TeardownWaitConnect ==
    [][\A t \in Procs :
          /\ (proc'[t].pc = "e_wait" /\ proc[t].pc # "e_wait")
                => /\ proc[t].pc \in {"e_move", "d_await", "d_settle"}
                   /\ proc[t].pc # "e_move" => Head(proc[t].stack) = "e_sleep_connect"
                   /\ \E p \in 1..Len(playerObj) :
                         p = proc[t].p /\ playerObj'[p].voice_client = None
          /\ (proc[t].pc = "e_wait" /\ proc'[t] # proc[t])
                => /\ proc'[t].pc \in {"c_conn", "c_cleanup"}
                   /\ proc'[t].attempt = 0]_vars

\* C37: when a song has ended and its callback has scheduled _play_next
\* while repeat_mode is on and current_song is set, _play_next takes
\* current_song again and leaves the queue as it is; and repeat_mode goes
\* from on to off only in a step in which a command is taken up (of the
\* commands, repeat, skip and stop alone write repeat_mode) or in which the
\* load of the repeated song, current_song, has failed in _play_next.
C37_RepeatKeepsQueue ==
    [][/\ \A t \in Procs :
             LET p == cog.players[proc[t].g] IN
             (/\ proc[t].pc = "n_start"
              /\ proc'[t] # proc[t]
              /\ playerObj[p].repeat_mode
              /\ playerObj[p].current_song # None)
                => /\ queueObj' = queueObj
                   /\ proc'[t].song \in {playerObj[p].current_song, None}
                   /\ proc'[t].pc = "n_regather"
                         => proc'[t].song = playerObj[p].current_song
       /\ \A p \in 1..Len(playerObj) :
             (playerObj[p].repeat_mode /\ ~playerObj'[p].repeat_mode)
                => \/ hist'.ncmd = hist.ncmd + 1
                   \/ \E t \in Procs :
                         /\ proc[t].pc = "n_regather"
                         /\ proc'[t].pc = "n_skip"
                         /\ proc[t].p = p
                         /\ proc[t].song = playerObj[p].current_song]_vars

\* The part of C37 that holds: the same, with the load failure of whatever
\* song _play_next was loading.
C37_RepeatOffByAnyFailure ==
    [][/\ \A t \in Procs :
             LET p == cog.players[proc[t].g] IN
             (/\ proc[t].pc = "n_start"
              /\ proc'[t] # proc[t]
              /\ playerObj[p].repeat_mode
              /\ playerObj[p].current_song # None)
                => /\ queueObj' = queueObj
                   /\ proc'[t].song \in {playerObj[p].current_song, None}
                   /\ proc'[t].pc = "n_regather"
                         => proc'[t].song = playerObj[p].current_song
       /\ \A p \in 1..Len(playerObj) :
             (playerObj[p].repeat_mode /\ ~playerObj'[p].repeat_mode)
                => \/ hist'.ncmd = hist.ncmd + 1
                   \/ \E t \in Procs :
                         /\ proc[t].pc = "n_regather"
                         /\ proc'[t].pc = "n_skip"
                         /\ proc[t].p = p]_vars

\* C38: when the bot is taken out of its voice channel from outside, the
\* Player of that guild is cleaned up: afterwards its voice_client is None
\* and is_playing and is_paused are False, and current_song is as before
C38_ExternalDisconnectCleanup ==
    [][\A h \in 1..Len(vcObj) :
          (vcObj[h].status = "connected" /\ vcObj'[h].status = "removed")
          => LET p == cog.players[vcObj[h].guild] IN
             /\ playerObj'[p].voice_client = None
             /\ ~playerObj'[p].is_playing
             /\ ~playerObj'[p].is_paused
             /\ playerObj'[p].current_song = playerObj[p].current_song]_vars

\* what holds instead: the handler leaves every Player, the cog and every
\* Queue as they are
C38_HandlerLeavesPlayers ==
    [][\A h \in 1..Len(vcObj) :
          (vcObj[h].status = "connected" /\ vcObj'[h].status = "removed")
          => /\ playerObj' = playerObj
             /\ cog' = cog
             /\ queueObj' = queueObj]_vars

\* C39: skip makes progress: whenever skip is accepted (is_playing) with a
\* song waiting in the queue, that song eventually starts playing unless the
\* session's connection ends, whatever the playback state was, paused included
C39_SkipMakesProgress ==
    (/\ hist.skipped # None
     /\ hist.skiph \in 1..Len(vcObj)
     /\ vcObj[hist.skiph].status = "connected")
    ~> (\/ \E i \in 1..Len(hist.started) : hist.started[i] = hist.skipped
        \/ ~(hist.skiph \in 1..Len(vcObj) /\ vcObj[hist.skiph].status = "connected"))

\* what holds instead: when nothing but an idle timer is left to run (no
\* coroutine between two awaits, no callback, no source playing), the song
\* has started unless the handle's AudioPlayer is paused
C39_NoStallUnlessPaused ==
    (/\ Calm
     /\ \A h \in 1..Len(vcObj) : vcObj[h].audio # "playing"
     /\ hist.skipped # None
     /\ vcObj[hist.skiph].status = "connected"
     /\ vcObj[hist.skiph].audio # "paused")
    => \E i \in 1..Len(hist.started) : hist.started[i] = hist.skipped

\* C40: no queued song is silently lost: whenever a _play_next whose stream
\* has loaded makes the song it took from the queue the current_song, the
\* voice client starts playing that song or the failure is reported (the
\* error message of music.py:364-366); and while the Player's voice client
\* plays, current_song is the song that was started last.
C40_NoSongSilentlyLost ==
    /\ [](\A p \in 1..Len(playerObj) :
            LET h == playerObj[p].voice_client IN
            (h # None /\ vcObj[h].audio = "playing" /\ hist.started # <<>>)
            => playerObj[p].current_song = hist.started[Len(hist.started)])
    /\ [][\A t \in CmdTasks :
            (/\ proc[t].pc = "n_regather"
             /\ playerObj[proc[t].p].current_song # proc[t].song
             /\ playerObj'[proc[t].p].current_song = proc[t].song)
            => \/ \E i \in 1..Len(hist'.started) : hist'.started[i] = proc[t].song
               \/ proc'[t].pc = "n_error"]_vars

\* what holds instead, where every command, callback and timer is taken up
\* when no coroutine is between two awaits (SpecCog): the song a _play_next
\* makes current is started or its failure reported
C40_DequeuedSongStarts ==
    [][\A t \in CmdTasks :
          (/\ proc[t].pc = "n_regather"
           /\ playerObj[proc[t].p].current_song # proc[t].song
           /\ playerObj'[proc[t].p].current_song = proc[t].song)
          => \/ \E i \in 1..Len(hist'.started) : hist'.started[i] = proc[t].song
             \/ proc'[t].pc = "n_error"]_vars

====
